---- MODULE Spec2Model ----
(***************************************************************************)
(* A model of objtool's ELF access library (tools/objtool/elf.c) and of    *)
(* the LoongArch jump-table resolver (tools/objtool/arch/loongarch/        *)
(* special.c).                                                             *)
(*                                                                         *)
(* The module holds several specifications over one set of variables:      *)
(*   SpecSym    the per-section symbol list and interval tree              *)
(*   SpecTable  jump-table expansion (dynamic_add_jump_table)              *)
(*   SpecOrbit  the orbit resolver (arch_dynamic_add_jump_table_alts)      *)
(*   SpecElf    load of relocations, symbol / section / relocation         *)
(*              additions and write-back                                   *)
(* A specification changes only its own variables.                         *)
(***************************************************************************)
EXTENDS Integers, Sequences, FiniteSets, TLC

VARIABLES
    sec,      \* SpecSym: one section's symbols, symbol_list and symbol_tree
    qres,     \* SpecSym: the last query made and what it returned
    jt,       \* SpecTable: the table, the branch and the expansion's result
    orb,      \* SpecOrbit: the orbit and the resolver's result
    elf,      \* SpecElf: the ELF model (symbols, relocations, .symtab, disk)
    hist      \* SpecElf: the last operation and what it returned

vars == <<sec, qres, jt, orb, elf, hist>>

(***************************************************************************)
(* Generic helpers                                                         *)
(***************************************************************************)
Max(a, b) == IF a >= b THEN a ELSE b

Range(s) == {s[i] : i \in 1..Len(s)}

\* The sequence s with x inserted so that it becomes element number k + 1.
InsertAfter(s, k, x) == SubSeq(s, 1, k) \o <<x>> \o SubSeq(s, k + 1, Len(s))

\* The position of x in s (x occurs once).
IndexOf(s, x) == CHOOSE i \in 1..Len(s) : s[i] = x

\* The sequence s without its element x.
Without(s, x) == SelectSeq(s, LAMBDA y : y # x)

\* The variables of a part of the program that is not running.
JtIdle == [pc |-> "idle"]
OrbIdle == [pc |-> "idle"]
ElfIdle == [phase |-> "idle"]
HistIdle == [op |-> "none"]
SecIdle == [syms |-> <<>>, list |-> <<>>, tree |-> <<>>]

(***************************************************************************)
(* SpecSym: elf_add_symbol and the symbol queries                          *)
(*                                                                         *)
(* sec.syms  the section's symbols in creation order (a symbol's id is its *)
(*           position), each [offset, len, type, alias]                    *)
(* sec.list  the section's symbol_list, as symbol ids in list order        *)
(* sec.tree  the section's symbol_tree, as symbol ids in in-order          *)
(***************************************************************************)
MaxSecSyms == 3

\* The symbols a section may be given: functions at every offset and
\* length, objects that share an offset with or nest inside a function, and
\* section symbols (st_value 0).
SymChoices ==
    {[offset |-> o, len |-> l, type |-> "STT_FUNC"] : o \in {0, 16, 32}, l \in {0, 16, 32}}
    \cup {[offset |-> 0, len |-> 32, type |-> "STT_OBJECT"],
          [offset |-> 16, len |-> 16, type |-> "STT_OBJECT"],
          [offset |-> 0, len |-> 16, type |-> "STT_OBJECT"]}
    \cup {[offset |-> 0, len |-> 0, type |-> "STT_SECTION"],
          [offset |-> 0, len |-> 32, type |-> "STT_SECTION"]}

\* The offsets the queries are made at.
QueryOffsets == {0, 8, 16, 20, 32, 40, 48, 64}

NoSym == 0

\* __sym_start / __sym_last: the closed interval a tree node covers.
SymStart(s) == s.offset
SymLast(s) == s.offset + s.len - 1

\* INTERVAL_TREE_DEFINE's insert: the tree is ordered by start, a node whose
\* start equals an existing one goes to its right.  The result is the place
\* (0 = leftmost) after which the new node stands in in-order.
TreeInsertPos(S, tree, s) ==
    Cardinality({i \in 1..Len(tree) : SymStart(S[tree[i]]) <= SymStart(s)})

\* __sym_for_each(iter, tree, start, last): the nodes whose interval meets
\* [start, last], in in-order.
TreeOverlap(S, tree, start, last) ==
    SelectSeq(tree, LAMBDA id : SymStart(S[id]) <= last /\ start <= SymLast(S[id]))

\* elf_add_symbol: mark the aliases, insert into the tree, link into the
\* list behind the tree predecessor (or at the list's head), and take an
\* empty symbol out of the tree again.
elf_add_symbol(st, sym) ==
    LET id == Len(st.syms) + 1
        new == [offset |-> sym.offset, len |-> sym.len, type |-> sym.type, alias |-> id]
        hits == Range(TreeOverlap(st.syms, st.tree, sym.offset, sym.offset))
        S1 == [i \in 1..Len(st.syms) |->
                 IF i \in hits /\ st.syms[i].offset = sym.offset
                               /\ st.syms[i].type = sym.type
                 THEN [st.syms[i] EXCEPT !.alias = id]
                 ELSE st.syms[i]]
        pos == TreeInsertPos(st.syms, st.tree, sym)
        tree1 == InsertAfter(st.tree, pos, id)
        \* rb_prev(&sym->node), then list_add(&sym->list, entry)
        lpos == IF pos = 0 THEN 0 ELSE IndexOf(st.list, st.tree[pos])
        list1 == InsertAfter(st.list, lpos, id)
    IN  [syms |-> Append(S1, new),
         list |-> list1,
         tree |-> IF sym.len = 0 THEN Without(tree1, id) ELSE tree1]

\* find_symbol_containing without the test for section symbols.
find_symbol_containing_any_type(st, offset) ==
    LET hits == TreeOverlap(st.syms, st.tree, offset, offset)
    IN  IF Len(hits) = 0 THEN NoSym ELSE hits[1]

\* find_symbol_containing: the first node over [offset, offset] that is no
\* section symbol.
find_symbol_containing(st, offset) ==
    LET hits == SelectSeq(TreeOverlap(st.syms, st.tree, offset, offset),
                          LAMBDA id : st.syms[id].type # "STT_SECTION")
    IN  IF Len(hits) = 0 THEN NoSym ELSE hits[1]

\* symbol_hole_by_offset with the symbol's end taken as part of the symbol.
symbol_hole_by_offset_closed_end(key, s, id, hole) ==
    IF key < s.offset THEN [c |-> -1, hole |-> hole]
    ELSE IF key > s.offset + s.len
         THEN [c |-> 1, hole |-> IF s.type # "STT_SECTION" THEN id ELSE hole]
         ELSE [c |-> 0, hole |-> hole]

\* symbol_hole_by_offset: rb_find's comparison of the key with one node;
\* hole is the symbol remembered so far.
symbol_hole_by_offset(key, s, id, hole) ==
    IF key < s.offset THEN [c |-> -1, hole |-> hole]
    ELSE IF key >= s.offset + s.len
         THEN [c |-> 1, hole |-> IF s.type # "STT_SECTION" THEN id ELSE hole]
         ELSE [c |-> 0, hole |-> hole]

\* rb_find over the nodes tree[lo..hi].  The tree's shape follows from the
\* history of insertions and rotations; every binary-search shape of the
\* in-order sequence is taken, so the result is the set of [n, hole] pairs
\* some shape gives.
RECURSIVE RbFind(_, _, _, _, _, _)
RbFind(S, tree, lo, hi, key, hole) ==
    IF lo > hi THEN {[n |-> NoSym, hole |-> hole]}
    ELSE UNION {
        LET r == symbol_hole_by_offset(key, S[tree[root]], tree[root], hole)
        IN  IF r.c < 0 THEN RbFind(S, tree, lo, root - 1, key, r.hole)
            ELSE IF r.c > 0 THEN RbFind(S, tree, root + 1, hi, key, r.hole)
            ELSE {[n |-> tree[root], hole |-> r.hole]}
        : root \in lo..hi }

\* rb_next: the in-order successor, NoSym at the end.
RbNext(tree, id) ==
    LET i == IndexOf(tree, id)
    IN  IF i = Len(tree) THEN NoSym ELSE tree[i + 1]

\* The value find_symbol_hole_containing returns after rb_find gave r.
HoleReturn(st, offset, r) ==
    IF r.n # NoSym THEN 0
    ELSE IF r.hole = NoSym THEN 0
    ELSE LET n == RbNext(st.tree, r.hole)
         IN  IF n = NoSym THEN -1 ELSE st.syms[n].offset - offset

\* find_symbol_hole_containing: the values it may return.
find_symbol_hole_containing(st, offset) ==
    {HoleReturn(st, offset, r) :
        r \in RbFind(st.syms, st.tree, 1, Len(st.tree), offset, NoSym)}

NoQuery == [op |-> "none", arg |-> 0, ret |-> 0]

InitSym ==
    /\ sec = SecIdle
    /\ qres = NoQuery
    /\ jt = JtIdle /\ orb = OrbIdle /\ elf = ElfIdle /\ hist = HistIdle

\* read_symbols / elf_create_*_symbol: one more symbol of the section.
AddSym ==
    /\ qres = NoQuery
    /\ Len(sec.syms) < MaxSecSyms
    /\ \E sym \in SymChoices : sec' = elf_add_symbol(sec, sym)
    /\ qres' = NoQuery

FindContaining ==
    /\ qres = NoQuery
    /\ \E id \in 1..Len(sec.syms) :
          /\ sec.syms[id].len # 0
          /\ qres' = [op |-> "containing", arg |-> id,
                      ret |-> find_symbol_containing(sec, sec.syms[id].offset)]

FindHole ==
    /\ qres = NoQuery
    /\ \E off \in QueryOffsets :
          \E r \in find_symbol_hole_containing(sec, off) :
              qres' = [op |-> "hole", arg |-> off, ret |-> r]

\* The caller has taken the query's result.
QueryReturn ==
    /\ qres # NoQuery
    /\ qres' = NoQuery

NextSym ==
    \/ QueryReturn /\ UNCHANGED <<sec, jt, orb, elf, hist>>
    \/ AddSym /\ UNCHANGED <<jt, orb, elf, hist>>
    \/ FindContaining /\ UNCHANGED <<sec, jt, orb, elf, hist>>
    \/ FindHole /\ UNCHANGED <<sec, jt, orb, elf, hist>>

(***************************************************************************)
(* The text the resolver works on.                                         *)
(*                                                                         *)
(* One text section "T" holds function F (entry at 0, instructions at 1    *)
(* and 2), its cold subfunction Fcold (3), and function G (entry at 4, an  *)
(* instruction at 5).  Offset 6 holds no instruction, offset 7 an          *)
(* instruction outside every function.  Section "R" is read-only data.     *)
(***************************************************************************)
Funcs == {"F", "Fcold", "G"}

\* struct symbol of each function: sec, offset, pfunc (set by read_symbols).
FuncSym ==
    [f \in Funcs |->
        CASE f = "F" -> [sec |-> "T", offset |-> 0, pfunc |-> "F"]
          [] f = "Fcold" -> [sec |-> "T", offset |-> 3, pfunc |-> "F"]
          [] f = "G" -> [sec |-> "T", offset |-> 4, pfunc |-> "G"]]

NoInsn == [sec |-> "none", offset |-> 0]

\* insn_func(insn): the function symbol of the instruction at (sec, offset),
\* "none" for an instruction whose symbol is no function.
insn_func(insn) ==
    IF insn.sec # "T" THEN "none"
    ELSE CASE insn.offset \in {0, 1, 2} -> "F"
           [] insn.offset = 3 -> "Fcold"
           [] insn.offset \in {4, 5} -> "G"
           [] OTHER -> "none"

\* find_insn(file, sec, offset): the instruction decoded at (sec, offset).
find_insn(s, offset) ==
    IF s = "T" /\ offset \in {0, 1, 2, 3, 4, 5, 7}
    THEN [sec |-> s, offset |-> offset]
    ELSE NoInsn

(***************************************************************************)
(* SpecTable: dynamic_add_jump_table                                       *)
(*                                                                         *)
(* A table relocation is [sec, offset, jts]: its symbol's section and      *)
(* offset, and its jump_table_start flag.  list is the reloc_list of the   *)
(* table's relocation section, table the position of the anchor in it,     *)
(* func the function of the branch.                                        *)
(* Allocation failure (malloc) is left out.                                *)
(***************************************************************************)
MaxTable == 4

\* The loop of dynamic_add_jump_table from list position k on; alts is
\* insn->alts, most recent first.
RECURSIVE JumpTableLoop(_, _, _, _, _)
JumpTableLoop(list, table, pfunc, k, alts) ==
    IF k > Len(list) THEN alts
    ELSE LET reloc == list[k]
             dest_insn == find_insn(reloc.sec, reloc.offset)
         IN  IF k # table /\ reloc.jts THEN alts
             ELSE IF reloc.sec = FuncSym[pfunc].sec
                     /\ reloc.offset = FuncSym[pfunc].offset THEN alts
             ELSE IF dest_insn = NoInsn THEN alts
             ELSE IF insn_func(dest_insn) = "none"
                     \/ FuncSym[insn_func(dest_insn)].pfunc # pfunc THEN alts
             ELSE JumpTableLoop(list, table, pfunc, k + 1, <<dest_insn>> \o alts)

\* The loop without the test that the destination is in the same function.
RECURSIVE JumpTableLoopAnyFunc(_, _, _, _, _)
JumpTableLoopAnyFunc(list, table, pfunc, k, alts) ==
    IF k > Len(list) THEN alts
    ELSE LET reloc == list[k]
             dest_insn == find_insn(reloc.sec, reloc.offset)
         IN  IF k # table /\ reloc.jts THEN alts
             ELSE IF reloc.sec = FuncSym[pfunc].sec
                     /\ reloc.offset = FuncSym[pfunc].offset THEN alts
             ELSE IF dest_insn = NoInsn THEN alts
             ELSE JumpTableLoopAnyFunc(list, table, pfunc, k + 1, <<dest_insn>> \o alts)

\* dynamic_add_jump_table with the walk started at the list's head.
dynamic_add_jump_table_from_head(list, table, func) ==
    [ret |-> 0, alts |-> JumpTableLoop(list, table, FuncSym[func].pfunc, 1, <<>>)]

\* dynamic_add_jump_table with the same-function test left out.
dynamic_add_jump_table_any_func(list, table, func) ==
    [ret |-> 0,
     alts |-> JumpTableLoopAnyFunc(list, table, FuncSym[func].pfunc, table, <<>>)]

\* dynamic_add_jump_table(file, insn, table): the alternatives attached to
\* the branch and the value returned.
dynamic_add_jump_table(list, table, func) ==
    [ret |-> 0,
     alts |-> JumpTableLoop(list, table, FuncSym[func].pfunc, table, <<>>)]

\* The relocations a table section may hold.
TableRelocs ==
    {[sec |-> "T", offset |-> o, jts |-> FALSE] : o \in {0, 1, 2, 3, 4, 6, 7}}
    \cup {[sec |-> "T", offset |-> o, jts |-> TRUE] : o \in {1, 4}}

InitTable ==
    /\ jt = [pc |-> "load", list |-> <<>>, table |-> 0, func |-> "none",
             ret |-> 0, alts |-> <<>>]
    /\ sec = SecIdle /\ qres = NoQuery
    /\ orb = OrbIdle /\ elf = ElfIdle /\ hist = HistIdle

\* read_relocs: one more relocation of the table's section.
ReadTableReloc ==
    /\ jt.pc = "load"
    /\ Len(jt.list) < MaxTable
    /\ \E r \in TableRelocs : jt' = [jt EXCEPT !.list = Append(@, r)]

\* The resolver has anchored a branch of function func at list position
\* table and expands the table.
ExpandTable ==
    /\ jt.pc = "load"
    /\ \E table \in 1..Len(jt.list), func \in Funcs :
          LET r == dynamic_add_jump_table(jt.list, table, func)
          IN  jt' = [jt EXCEPT !.pc = "done", !.table = table, !.func = func,
                               !.ret = r.ret, !.alts = r.alts]

NextTable ==
    \/ ReadTableReloc /\ UNCHANGED <<sec, qres, orb, elf, hist>>
    \/ ExpandTable /\ UNCHANGED <<sec, qres, orb, elf, hist>>

(***************************************************************************)
(* LoongArch instruction words (union loongarch_instruction).              *)
(*                                                                         *)
(* A word is a 32-bit number; each format slices it into fields.  The      *)
(* register fields rd, rj, rk are bits 0-4, 5-9, 10-14 in every format;    *)
(* the opcode is what is left above the format's immediate.                *)
(***************************************************************************)
Pow2(n) == 2 ^ n

Bits(w, lo, n) == (w \div Pow2(lo)) % Pow2(n)

Rd(w) == Bits(w, 0, 5)
Rj(w) == Bits(w, 5, 5)
Rk(w) == Bits(w, 10, 5)

Op_reg1i20(w) == Bits(w, 25, 7)
Op_reg2i12(w) == Bits(w, 22, 10)
Op_reg2i14(w) == Bits(w, 24, 8)
Op_reg2i16(w) == Bits(w, 26, 6)
Op_reg3(w) == Bits(w, 15, 17)
Op_reg3sa2(w) == Bits(w, 17, 15)

\* reg2i12_format.simmediate: the 12-bit immediate, sign-extended.
Simm12(w) == LET u == Bits(w, 10, 12) IN IF u >= 2048 THEN u - 4096 ELSE u

lu12iw_op == 10
lu32id_op == 11
pcaddu12i_op == 14
addid_op == 11
lu52id_op == 12
ori_op == 14
ldd_op == 163
std_op == 167
ldptrd_op == 38
stptrd_op == 39
jirl_op == 19
addd_op == 33
ldxd_op == 28696
alsld_op == 22
CFI_SP == 3

\* The assembler's side: a word from its fields.
Enc_reg1i20(op, imm, rd) == op * Pow2(25) + imm * Pow2(5) + rd
Enc_reg2i12(op, imm, rj, rd) == op * Pow2(22) + (imm % 4096) * Pow2(10) + rj * 32 + rd
Enc_reg2i14(op, imm, rj, rd) == op * Pow2(24) + imm * Pow2(10) + rj * 32 + rd
Enc_reg2i16(op, imm, rj, rd) == op * Pow2(26) + imm * Pow2(10) + rj * 32 + rd
Enc_reg3(op, rk, rj, rd) == op * Pow2(15) + rk * Pow2(10) + rj * 32 + rd
Enc_reg3sa2(op, sa, rk, rj, rd) ==
    op * Pow2(17) + sa * Pow2(15) + rk * Pow2(10) + rj * 32 + rd

(***************************************************************************)
(* The relocations of the text the resolver meets.                         *)
(*                                                                         *)
(* An instruction of the orbit is [word, rel]: rel names the symbol of the *)
(* relocation found at the instruction (find_reloc_by_dest), "none" when   *)
(* there is none.  RodataRelocs is the reloc_list of section R's           *)
(* relocation section: a four-entry table at R+0 (three labels of F, then  *)
(* one of G) and a five-entry table at R+32 (labels of F and Fcold).       *)
(***************************************************************************)
RelSymNames == {"L0", "jumptable_7", "L9", "g_func", "ext"}

RelSym ==
    [n \in RelSymNames |->
        CASE n = "L0" ->
               [name |-> <<".", "L", "0">>, bind |-> "STB_LOCAL",
                type |-> "STT_NOTYPE", sec |-> "R", offset |-> 0]
          [] n = "jumptable_7" ->
               [name |-> <<"j", "u", "m", "p", "t", "a", "b", "l", "e", "_", "7">>,
                bind |-> "STB_LOCAL", type |-> "STT_OBJECT",
                sec |-> "R", offset |-> 32]
          [] n = "L9" ->
               [name |-> <<".", "L", "9">>, bind |-> "STB_LOCAL",
                type |-> "STT_NOTYPE", sec |-> "R", offset |-> 80]
          [] n = "g_func" ->
               [name |-> <<"g", "_", "f", "u", "n", "c">>, bind |-> "STB_GLOBAL",
                type |-> "STT_FUNC", sec |-> "T", offset |-> 4]
          [] n = "ext" ->
               [name |-> <<"e", "x", "t">>, bind |-> "STB_GLOBAL",
                type |-> "STT_NOTYPE", sec |-> "U", offset |-> 0]]

RodataRelocs ==
    << [sec |-> "T", offset |-> 1, jts |-> TRUE],
       [sec |-> "T", offset |-> 2, jts |-> FALSE],
       [sec |-> "T", offset |-> 1, jts |-> FALSE],
       [sec |-> "T", offset |-> 5, jts |-> FALSE],
       [sec |-> "T", offset |-> 1, jts |-> TRUE],
       [sec |-> "T", offset |-> 2, jts |-> FALSE],
       [sec |-> "T", offset |-> 3, jts |-> FALSE],
       [sec |-> "T", offset |-> 2, jts |-> FALSE],
       [sec |-> "T", offset |-> 1, jts |-> FALSE] >>

\* find_reloc_by_dest(elf, sec, offset) on the read-only data: the list
\* position of the relocation at that offset, 0 when there is none.
RodataRelocAt(s, offset) ==
    IF s = "R" /\ offset % 8 = 0 /\ offset \div 8 < Len(RodataRelocs)
    THEN offset \div 8 + 1
    ELSE 0

\* strncmp(name, prefix, strlen(prefix)) == 0
HasPrefix(name, prefix) ==
    Len(name) >= Len(prefix) /\ SubSeq(name, 1, Len(prefix)) = prefix

IsTableName(name) ==
    \/ HasPrefix(name, <<".", "L">>)
    \/ HasPrefix(name, <<"j", "u", "m", "p", "t", "a", "b", "l", "e">>)

(***************************************************************************)
(* arch_dynamic_add_jump_table_alts                                        *)
(*                                                                         *)
(* The branch is an instruction of function F.  The resolver's outcome is  *)
(* [ret, type, jump_dest, jump_table, alts]; dest_reg and stage are the    *)
(* tracked register and the stage it ended with.                           *)
(***************************************************************************)
BranchFunc == "F"

NoResult ==
    [ret |-> 0, type |-> "INSN_JUMP_DYNAMIC", jump_dest |-> NoInsn,
     jump_table |-> 0, alts |-> <<>>, dest_reg |-> 0, stage |-> 0]

\* The anchor with a symbol that is neither .L... nor jumptable... taken
\* as a failure whatever its binding.
AnchorNamedOnly(s, e) ==
    IF e.rel = "none" THEN [s EXCEPT !.done = TRUE, !.r.ret = 1]
    ELSE LET sym == RelSym[e.rel]
             rodata_reloc == RodataRelocAt(sym.sec, sym.offset)
         IN  IF IsTableName(sym.name) /\ rodata_reloc # 0
             THEN LET x == dynamic_add_jump_table(RodataRelocs, rodata_reloc,
                                                  BranchFunc)
                  IN  [s EXCEPT !.done = TRUE, !.r.ret = x.ret,
                                !.r.jump_table = rodata_reloc,
                                !.r.alts = x.alts]
             ELSE [s EXCEPT !.done = TRUE, !.r.ret = 1]

\* The anchor found at the instruction e (pcaddu12i, or lu12i.w after
\* lu52i.d): lines 251-279 and 284-312.
Anchor(s, e) ==
    IF e.rel = "none" THEN [s EXCEPT !.done = TRUE, !.r.ret = 1]
    ELSE LET sym == RelSym[e.rel]
             rodata_reloc == RodataRelocAt(sym.sec, sym.offset)
         IN  IF IsTableName(sym.name)
             THEN IF rodata_reloc = 0
                  THEN [s EXCEPT !.done = TRUE, !.r.ret = 1]
                  ELSE LET x == dynamic_add_jump_table(RodataRelocs, rodata_reloc,
                                                       BranchFunc)
                       IN  [s EXCEPT !.done = TRUE, !.r.ret = x.ret,
                                     !.r.jump_table = rodata_reloc,
                                     !.r.alts = x.alts]
             ELSE IF sym.bind = "STB_LOCAL" /\ sym.type = "STT_OBJECT"
                  THEN [s EXCEPT !.done = TRUE, !.r.type = "INSN_RETURN", !.r.ret = 0]
             ELSE IF sym.bind = "STB_GLOBAL"
                  THEN [s EXCEPT !.done = TRUE, !.r.type = "INSN_RETURN", !.r.ret = 0]
             ELSE [s EXCEPT !.done = TRUE, !.r.ret = 1]

\* case 0 with lu52i.d on the tracked register taken as a failure.
Stage0Lu52idFails(s, w) ==
    LET a1 == IF Op_reg3sa2(w) = alsld_op /\ Rd(w) = s.dest_reg
              THEN [s EXCEPT !.dest_reg = Rk(w), !.stage = 1] ELSE s
        a2 == IF Op_reg2i14(w) = ldptrd_op /\ Rd(w) = a1.dest_reg
              THEN [a1 EXCEPT !.dest_reg = Rj(w), !.ldptrd = a1.i] ELSE a1
        a3 == IF Op_reg2i12(w) = ldd_op /\ Rd(w) = a2.dest_reg
              THEN [a2 EXCEPT !.dest_reg = Rj(w), !.ldd = a2.i] ELSE a2
        a4 == IF Op_reg3(w) = ldxd_op /\ Rd(w) = a3.dest_reg
              THEN [a3 EXCEPT !.dest_reg = Rj(w), !.stage = 1] ELSE a3
        a5 == IF (a4.ldptrd # 0 \/ a4.ldd # 0)
                 /\ Op_reg3(w) = addd_op /\ Rd(w) = a4.dest_reg
              THEN [a4 EXCEPT !.dest_reg = Rj(w), !.stage = 1] ELSE a4
    IN  IF Op_reg2i12(w) = lu52id_op /\ Rj(w) = a5.dest_reg /\ Rd(w) = a5.dest_reg
        THEN [a5 EXCEPT !.done = TRUE, !.r.ret = 1]
        ELSE IF Op_reg2i12(w) = addid_op /\ Rd(w) = a5.dest_reg
        THEN [a5 EXCEPT !.done = TRUE, !.r.type = "INSN_RETURN", !.r.ret = 0]
        ELSE a5

\* case 0 with add.d taken whether or not a load was recorded before.
Stage0AddAlways(s, w) ==
    IF Op_reg3(w) = addd_op /\ Rd(w) = s.dest_reg
    THEN [s EXCEPT !.dest_reg = Rj(w), !.stage = 1]
    ELSE IF Op_reg3sa2(w) = alsld_op /\ Rd(w) = s.dest_reg
    THEN [s EXCEPT !.dest_reg = Rk(w), !.stage = 1]
    ELSE IF Op_reg3(w) = ldxd_op /\ Rd(w) = s.dest_reg
    THEN [s EXCEPT !.dest_reg = Rj(w), !.stage = 1]
    ELSE IF Op_reg2i14(w) = ldptrd_op /\ Rd(w) = s.dest_reg
    THEN [s EXCEPT !.dest_reg = Rj(w), !.ldptrd = s.i]
    ELSE IF Op_reg2i12(w) = ldd_op /\ Rd(w) = s.dest_reg
    THEN [s EXCEPT !.dest_reg = Rj(w), !.ldd = s.i]
    ELSE s

\* case 0 of the second loop's switch (lines 200-245).
Stage0(s, w) ==
    LET a1 == IF Op_reg3sa2(w) = alsld_op /\ Rd(w) = s.dest_reg
              THEN [s EXCEPT !.dest_reg = Rk(w), !.stage = 1] ELSE s
        a2 == IF Op_reg2i14(w) = ldptrd_op /\ Rd(w) = a1.dest_reg
              THEN [a1 EXCEPT !.dest_reg = Rj(w), !.ldptrd = a1.i] ELSE a1
        a3 == IF Op_reg2i12(w) = ldd_op /\ Rd(w) = a2.dest_reg
              THEN [a2 EXCEPT !.dest_reg = Rj(w), !.ldd = a2.i] ELSE a2
        a4 == IF Op_reg3(w) = ldxd_op /\ Rd(w) = a3.dest_reg
              THEN [a3 EXCEPT !.dest_reg = Rj(w), !.stage = 1] ELSE a3
        a5 == IF (a4.ldptrd # 0 \/ a4.ldd # 0)
                 /\ Op_reg3(w) = addd_op /\ Rd(w) = a4.dest_reg
              THEN [a4 EXCEPT !.dest_reg = Rj(w), !.stage = 1] ELSE a4
    IN  IF Op_reg2i12(w) = lu52id_op /\ Rj(w) = a5.dest_reg /\ Rd(w) = a5.dest_reg
        THEN [a5 EXCEPT !.done = TRUE, !.r.type = "INSN_RETURN", !.r.ret = 0]
        ELSE IF Op_reg2i12(w) = addid_op /\ Rd(w) = a5.dest_reg
        THEN [a5 EXCEPT !.done = TRUE, !.r.type = "INSN_RETURN", !.r.ret = 0]
        ELSE a5

\* case 1 of the second loop's switch (lines 246-325).
Stage1(s, e) ==
    LET w == e.word
    IN  IF s.lu52id = 0 /\ Op_reg1i20(w) = pcaddu12i_op /\ Rd(w) = s.dest_reg
        THEN Anchor(s, e)
        ELSE IF s.lu52id # 0 /\ Op_reg1i20(w) = lu12iw_op /\ Rd(w) = s.dest_reg
        THEN Anchor(s, e)
        ELSE LET b1 == IF Op_reg2i12(w) = addid_op /\ Rd(w) = s.dest_reg
                       THEN [s EXCEPT !.dest_reg = Rj(w)] ELSE s
             IN  IF Op_reg2i12(w) = lu52id_op /\ Rj(w) = b1.dest_reg
                    /\ Rd(w) = b1.dest_reg
                 THEN [b1 EXCEPT !.lu52id = b1.i] ELSE b1

\* The store that ends the stack reload (lines 188-189).
StackStoreKeepReg(s, w) == [s EXCEPT !.instack = 0]

StackStore(s, w) == [s EXCEPT !.dest_reg = Rd(w), !.instack = 0]

\* One pass of the second loop's body (lines 183-329).
PhaseBStep(s0, e) ==
    LET s == [s0 EXCEPT !.i = s0.i + 1]
        w == e.word
    IN  IF s.instack # 0
        THEN IF (Op_reg2i12(w) = std_op \/ Op_reg2i12(w) = stptrd_op)
                /\ Simm12(w) = s.instack /\ Rj(w) = 3
             THEN StackStore(s, w)
             ELSE s
        ELSE IF (Op_reg2i12(w) = ldd_op \/ Op_reg2i12(w) = ldptrd_op)
                /\ Rd(w) = s.dest_reg /\ Rj(w) = 3
        THEN [s EXCEPT !.instack = Simm12(w)]
        ELSE IF s.stage = 0 THEN Stage0(s, w)
        ELSE IF s.stage = 1 THEN Stage1(s, e)
        ELSE [s EXCEPT !.done = TRUE, !.r.ret = 1]

\* The second loop (lines 182-333).
RECURSIVE PhaseB(_, _, _)
PhaseB(orbit, k, s) ==
    IF s.done THEN s.r
    ELSE IF k > Len(orbit) THEN [s.r EXCEPT !.type = "INSN_RETURN", !.ret = 0]
    ELSE LET n == PhaseBStep(s, orbit[k])
         IN  PhaseB(orbit, k + 1,
                    [n EXCEPT !.r.dest_reg = n.dest_reg, !.r.stage = n.stage])

\* The instruction the lu12i.w's relocation symbol resolves to (line 159),
\* here with every symbol taken to have none.
LuTargetNone(sym) == NoInsn

\* n = find_insn(file, reloc->sym->sec, reloc->sym->offset) (line 159)
LuTarget(sym) == find_insn(sym.sec, sym.offset)

\* The first loop (lines 133-180): [done, i, r], done when the loop
\* returned from the function.
RECURSIVE PhaseA(_, _, _, _, _)
PhaseA(orbit, k, i, dest_reg, r) ==
    IF k > Len(orbit) THEN [done |-> FALSE, i |-> i, r |-> r]
    ELSE LET w == orbit[k].word
             miss == [done |-> FALSE, i |-> 5, r |-> r]
         IN  CASE i = 1 ->
                    IF Op_reg2i12(w) # lu52id_op \/ Rj(w) # dest_reg \/ Rd(w) # dest_reg
                    THEN miss ELSE PhaseA(orbit, k + 1, 2, dest_reg, r)
               [] i = 2 ->
                    IF Op_reg1i20(w) # lu32id_op \/ Rd(w) # dest_reg
                    THEN miss ELSE PhaseA(orbit, k + 1, 3, dest_reg, r)
               [] i = 3 ->
                    IF Op_reg2i12(w) # ori_op \/ Rj(w) # dest_reg \/ Rd(w) # dest_reg
                    THEN miss ELSE PhaseA(orbit, k + 1, 4, dest_reg, r)
               [] i = 4 ->
                    IF Op_reg1i20(w) # lu12iw_op \/ Rd(w) # dest_reg THEN miss
                    ELSE IF orbit[k].rel = "none"
                    THEN [done |-> TRUE, i |-> i, r |-> [r EXCEPT !.ret = 1]]
                    ELSE LET sym == RelSym[orbit[k].rel]
                             n == LuTarget(sym)
                         IN  IF n = NoInsn
                             THEN PhaseA(orbit, k + 1, 5, dest_reg,
                                         [r EXCEPT !.type = "INSN_RETURN"])
                             ELSE [done |-> TRUE, i |-> i,
                                   r |-> [r EXCEPT !.jump_dest = n, !.ret = 0]]
               [] i = 5 -> [done |-> FALSE, i |-> 5, r |-> r]
               [] OTHER -> PhaseA(orbit, k + 1, i + 1, dest_reg, r)

\* The resolver with the test of the head (lines 125-129) taken before the
\* test of the entry behind it (lines 116-123).
ResolverJirlFirst(orbit, insn, next) ==
    IF Len(orbit) = 0 THEN [NoResult EXCEPT !.ret = 1]
    ELSE IF orbit[1] # insn THEN [NoResult EXCEPT !.ret = 1]
    ELSE IF Op_reg2i16(insn.word) # jirl_op THEN [NoResult EXCEPT !.ret = 1]
    ELSE IF Op_reg2i12(next) = addid_op /\ Rj(next) = CFI_SP /\ Rd(next) = CFI_SP
    THEN [NoResult EXCEPT !.type = "INSN_RETURN", !.ret = 0]
    ELSE LET dest_reg == Rj(insn.word)
             a == PhaseA(orbit, 1, 0, dest_reg,
                         [NoResult EXCEPT !.dest_reg = dest_reg])
         IN  IF a.done THEN a.r
             ELSE PhaseB(orbit, 1,
                         [dest_reg |-> dest_reg, stage |-> 0, instack |-> 0,
                          i |-> a.i, lu52id |-> 0, ldptrd |-> 0, ldd |-> 0,
                          done |-> FALSE, r |-> a.r])

\* arch_dynamic_add_jump_table_alts(p_orbit_list, file, func, insn).  next
\* is the word read through list_next_entry(insn, orbit_node): the orbit's
\* second instruction, or, for an orbit of one instruction, whatever the
\* list head's bytes decode to.
arch_dynamic_add_jump_table_alts(orbit, insn, next) ==
    IF Len(orbit) = 0 THEN [NoResult EXCEPT !.ret = 1]
    ELSE IF orbit[1] # insn THEN [NoResult EXCEPT !.ret = 1]
    ELSE IF Op_reg2i12(next) = addid_op /\ Rj(next) = CFI_SP /\ Rd(next) = CFI_SP
    THEN [NoResult EXCEPT !.type = "INSN_RETURN", !.ret = 0]
    ELSE IF Op_reg2i16(insn.word) # jirl_op THEN [NoResult EXCEPT !.ret = 1]
    ELSE LET dest_reg == Rj(insn.word)
             a == PhaseA(orbit, 1, 0, dest_reg,
                         [NoResult EXCEPT !.dest_reg = dest_reg])
         IN  IF a.done THEN a.r
             ELSE PhaseB(orbit, 1,
                         [dest_reg |-> dest_reg, stage |-> 0, instack |-> 0,
                          i |-> a.i, lu52id |-> 0, ldptrd |-> 0, ldd |-> 0,
                          done |-> FALSE, r |-> a.r])

(***************************************************************************)
(* SpecOrbit: the decoder walks a function forward and pushes each         *)
(* instruction at the head of the orbit; at the indirect branch the        *)
(* resolver runs on the orbit whose head is the branch.                    *)
(***************************************************************************)
MaxOrbit == 6

(* The instructions the decoder meets before the branch. *)
OrbitInsns ==
    { [word |-> Enc_reg3(ldxd_op, 12, 13, 12), rel |-> "none"],
      [word |-> Enc_reg2i12(ldd_op, 32, CFI_SP, 12), rel |-> "none"],
      [word |-> Enc_reg2i12(ldd_op, 32, CFI_SP, 13), rel |-> "none"],
      [word |-> Enc_reg2i12(std_op, 32, CFI_SP, 14), rel |-> "none"],
      [word |-> Enc_reg1i20(pcaddu12i_op, 0, 14), rel |-> "jumptable_7"],
      [word |-> Enc_reg1i20(pcaddu12i_op, 0, 13), rel |-> "L0"] }

(* jirl $zero, $t0, 0 *)
BranchInsn == [word |-> Enc_reg2i16(jirl_op, 0, 12, 0), rel |-> "none"]

(* What the bytes of the list head can decode to when the orbit is the
   branch alone and list_next_entry() steps onto the head. *)
HeadWords == {0, Enc_reg2i12(addid_op, 0 - 16, CFI_SP, CFI_SP)}

InitOrbit ==
    /\ orb = [pc |-> "decode", orbit |-> <<>>, res |-> NoResult]
    /\ sec = SecIdle /\ qres = NoQuery
    /\ jt = JtIdle /\ elf = ElfIdle /\ hist = HistIdle

Decode ==
    /\ orb.pc = "decode"
    /\ Len(orb.orbit) < MaxOrbit - 1
    /\ \E e \in OrbitInsns : orb' = [orb EXCEPT !.orbit = <<e>> \o orb.orbit]
    /\ UNCHANGED <<sec, qres, jt, elf, hist>>

ResolveBranch ==
    /\ orb.pc = "decode"
    /\ LET orbit == <<BranchInsn>> \o orb.orbit
       IN  \E next \in (IF Len(orbit) = 1 THEN HeadWords ELSE {orbit[2].word}) :
              orb' = [pc |-> "resolved", orbit |-> orbit,
                      res |-> arch_dynamic_add_jump_table_alts(orbit, BranchInsn, next)]
    /\ UNCHANGED <<sec, qres, jt, elf, hist>>

NextOrbit ==
    \/ Decode
    \/ ResolveBranch

(***************************************************************************)
(* SpecMark: arch_mark_func_jump_tables on the instructions of a function. *)
(* The table section R has relocations at R+0 and R+32 (the places of the  *)
(* symbols .L0 and jumptable_7) and none at R+80 (.L9).                    *)
(***************************************************************************)
MaxMark == 3

\* The names of the symbols a relocation of the table section may target.
MarkTargets == {<<".", "L", "5">>, <<"g", "_", "f", "u", "n", "c">>}

MarkOffsets == {0, 32}

\* The instructions of the function.
MarkInsns ==
    { [word |-> Enc_reg1i20(pcaddu12i_op, 0, 13), rel |-> "L0"],
      [word |-> Enc_reg1i20(pcaddu12i_op, 0, 14), rel |-> "jumptable_7"],
      [word |-> Enc_reg1i20(pcaddu12i_op, 0, 13), rel |-> "L9"],
      [word |-> Enc_reg1i20(pcaddu12i_op, 0, 13), rel |-> "g_func"],
      [word |-> Enc_reg1i20(pcaddu12i_op, 0, 13), rel |-> "none"],
      [word |-> Enc_reg1i20(lu12iw_op, 0, 12), rel |-> "L0"],
      [word |-> Enc_reg3(ldxd_op, 12, 13, 12), rel |-> "none"] }

\* find_reloc_by_dest(elf, sec, offset) in the table section: the offset of
\* the relocation found, -1 for NULL.
MarkRelocAt(s, offset) ==
    IF s = "R" /\ offset \in MarkOffsets THEN offset ELSE 0 - 1

\* One pass of the loop with the table relocation marked whatever its own
\* symbol is.
MarkStepAnyTarget(table, marked, e) ==
    IF Op_reg1i20(e.word) # pcaddu12i_op THEN marked
    ELSE IF e.rel = "none" \/ ~IsTableName(RelSym[e.rel].name) THEN marked
    ELSE LET reloc == MarkRelocAt(RelSym[e.rel].sec, RelSym[e.rel].offset)
         IN  IF reloc = 0 - 1 THEN marked ELSE marked \cup {reloc}

\* One pass of the loop of arch_mark_func_jump_tables (lines 21-38): the
\* table relocations with jump_table_start set after it.
MarkStep(table, marked, e) ==
    IF Op_reg1i20(e.word) # pcaddu12i_op THEN marked
    ELSE IF e.rel = "none" \/ ~IsTableName(RelSym[e.rel].name) THEN marked
    ELSE LET reloc == MarkRelocAt(RelSym[e.rel].sec, RelSym[e.rel].offset)
         IN  IF reloc = 0 - 1 \/ ~HasPrefix(table[reloc], <<".", "L">>)
             THEN marked
             ELSE marked \cup {reloc}

InitMark ==
    /\ \E table \in [MarkOffsets -> MarkTargets] :
          jt = [pc |-> "mark", table |-> table, insns |-> <<>>, marked |-> {}]
    /\ sec = SecIdle /\ qres = NoQuery
    /\ orb = OrbIdle /\ elf = ElfIdle /\ hist = HistIdle

\* The loop comes to the next instruction of the function.
MarkInsn ==
    /\ jt.pc = "mark"
    /\ Len(jt.insns) < MaxMark
    /\ \E e \in MarkInsns :
          jt' = [jt EXCEPT !.insns = Append(@, e),
                           !.marked = MarkStep(jt.table, @, e)]
    /\ UNCHANGED <<sec, qres, orb, elf, hist>>

\* The function returns.
MarkReturn ==
    /\ jt.pc = "mark"
    /\ jt' = [jt EXCEPT !.pc = "marked"]
    /\ UNCHANGED <<sec, qres, orb, elf, hist>>

NextMark ==
    \/ MarkInsn
    \/ MarkReturn

(***************************************************************************)
(* SpecScan: the resolver run one orbit entry at a time, to follow the     *)
(* second loop to its end.                                                 *)
(***************************************************************************)
MaxScan == 4

\* The state of the second loop before its first entry (lines 98-101).
ScanStart(dest_reg, i, r) ==
    [dest_reg |-> dest_reg, stage |-> 0, instack |-> 0, i |-> i,
     lu52id |-> 0, ldptrd |-> 0, ldd |-> 0, done |-> FALSE, r |-> r]

\* The function up to the second loop (lines 106-180): [done, s], done
\* when it returned before the second loop, s.r what it returned or set.
ResolverEntry(orbit, insn, next) ==
    IF Len(orbit) = 0
    THEN [done |-> TRUE, s |-> ScanStart(0, 0, [NoResult EXCEPT !.ret = 1])]
    ELSE IF orbit[1] # insn
    THEN [done |-> TRUE, s |-> ScanStart(0, 0, [NoResult EXCEPT !.ret = 1])]
    ELSE IF Op_reg2i12(next) = addid_op /\ Rj(next) = CFI_SP /\ Rd(next) = CFI_SP
    THEN [done |-> TRUE,
          s |-> ScanStart(0, 0, [NoResult EXCEPT !.type = "INSN_RETURN", !.ret = 0])]
    ELSE IF Op_reg2i16(insn.word) # jirl_op
    THEN [done |-> TRUE, s |-> ScanStart(0, 0, [NoResult EXCEPT !.ret = 1])]
    ELSE LET dest_reg == Rj(insn.word)
             a == PhaseA(orbit, 1, 0, dest_reg,
                         [NoResult EXCEPT !.dest_reg = dest_reg])
         IN  [done |-> a.done, s |-> ScanStart(dest_reg, a.i, a.r)]

\* The end of the second loop with nothing returned (lines 332-333), here
\* without the assignment to insn->type.
OrbitExhaustedKeepsType(r) == [r EXCEPT !.ret = 0]

\* The end of the second loop with nothing returned (lines 332-333).
OrbitExhausted(r) == [r EXCEPT !.type = "INSN_RETURN", !.ret = 0]

InitScan ==
    /\ orb = [pc |-> "decode", orbit |-> <<>>, res |-> NoResult, next |-> 0,
              k |-> 0, s |-> ScanStart(0, 0, NoResult), exhausted |-> FALSE]
    /\ sec = SecIdle /\ qres = NoQuery
    /\ jt = JtIdle /\ elf = ElfIdle /\ hist = HistIdle

DecodeScan ==
    /\ orb.pc = "decode"
    /\ Len(orb.orbit) < MaxScan - 1
    /\ \E e \in OrbitInsns : orb' = [orb EXCEPT !.orbit = <<e>> \o orb.orbit]
    /\ UNCHANGED <<sec, qres, jt, elf, hist>>

\* The resolver is called for the branch and runs up to the second loop.
EnterResolver ==
    /\ orb.pc = "decode"
    /\ LET orbit == <<BranchInsn>> \o orb.orbit
       IN  \E next \in (IF Len(orbit) = 1 THEN HeadWords ELSE {orbit[2].word}) :
              LET a == ResolverEntry(orbit, BranchInsn, next)
              IN  orb' = [orb EXCEPT !.pc = IF a.done THEN "done" ELSE "B",
                                     !.orbit = orbit,
                                     !.next = next,
                                     !.k = 1,
                                     !.s = a.s,
                                     !.res = a.s.r]
    /\ UNCHANGED <<sec, qres, jt, elf, hist>>

\* One pass of the second loop's body, for the entry at position k.
ScanStep ==
    /\ orb.pc = "B"
    /\ orb.k <= Len(orb.orbit)
    /\ LET n == PhaseBStep(orb.s, orb.orbit[orb.k])
           m == [n EXCEPT !.r.dest_reg = n.dest_reg, !.r.stage = n.stage]
       IN  orb' = [orb EXCEPT !.pc = IF m.done THEN "done" ELSE "B",
                              !.k = @ + 1,
                              !.s = m,
                              !.res = m.r]
    /\ UNCHANGED <<sec, qres, jt, elf, hist>>

\* The list is at its end: the function leaves the loop and returns.
ScanExhausted ==
    /\ orb.pc = "B"
    /\ orb.k > Len(orb.orbit)
    /\ orb' = [orb EXCEPT !.pc = "done",
                          !.res = OrbitExhausted(orb.s.r),
                          !.exhausted = TRUE]
    /\ UNCHANGED <<sec, qres, jt, elf, hist>>

NextScan ==
    \/ DecodeScan
    \/ EnterResolver
    \/ ScanStep
    \/ ScanExhausted

(***************************************************************************)
(* SpecAnchor: the resolver run one orbit entry at a time on orbits with   *)
(* the anchors of Stage 1.                                                 *)
(***************************************************************************)
MaxAnchor == 4

(* The instructions the decoder meets before the branch. *)
AnchorInsns ==
    { [word |-> Enc_reg3(ldxd_op, 12, 13, 12), rel |-> "none"],
      [word |-> Enc_reg2i12(lu52id_op, 0, 13, 13), rel |-> "none"],
      [word |-> Enc_reg1i20(pcaddu12i_op, 0, 13), rel |-> "L0"],
      [word |-> Enc_reg1i20(pcaddu12i_op, 0, 13), rel |-> "jumptable_7"],
      [word |-> Enc_reg1i20(pcaddu12i_op, 0, 13), rel |-> "L9"],
      [word |-> Enc_reg1i20(pcaddu12i_op, 0, 13), rel |-> "g_func"],
      [word |-> Enc_reg1i20(pcaddu12i_op, 0, 13), rel |-> "ext"],
      [word |-> Enc_reg1i20(pcaddu12i_op, 0, 13), rel |-> "none"],
      [word |-> Enc_reg1i20(pcaddu12i_op, 0, 14), rel |-> "L0"] }

DecodeAnchor ==
    /\ orb.pc = "decode"
    /\ Len(orb.orbit) < MaxAnchor - 1
    /\ \E e \in AnchorInsns : orb' = [orb EXCEPT !.orbit = <<e>> \o orb.orbit]
    /\ UNCHANGED <<sec, qres, jt, elf, hist>>

NextAnchor ==
    \/ DecodeAnchor
    \/ EnterResolver
    \/ ScanStep
    \/ ScanExhausted

(***************************************************************************)
(* SpecStage: the resolver run one orbit entry at a time on orbits with    *)
(* the loads and additions of Stage 0.                                     *)
(***************************************************************************)
MaxStage == 4

(* The instructions the decoder meets before the branch. *)
StageInsns ==
    { [word |-> Enc_reg3sa2(alsld_op, 3, 14, 13, 12), rel |-> "none"],
      [word |-> Enc_reg3sa2(alsld_op, 3, 12, 12, 13), rel |-> "none"],
      [word |-> Enc_reg3(ldxd_op, 12, 13, 12), rel |-> "none"],
      [word |-> Enc_reg2i12(ldd_op, 8, 15, 12), rel |-> "none"],
      [word |-> Enc_reg2i14(ldptrd_op, 0, 15, 12), rel |-> "none"],
      [word |-> Enc_reg3(addd_op, 14, 13, 12), rel |-> "none"],
      [word |-> Enc_reg3(addd_op, 14, 13, 15), rel |-> "none"],
      [word |-> Enc_reg2i12(ldd_op, 32, CFI_SP, 12), rel |-> "none"],
      [word |-> Enc_reg2i12(std_op, 32, CFI_SP, 12), rel |-> "none"] }

DecodeStage ==
    /\ orb.pc = "decode"
    /\ Len(orb.orbit) < MaxStage - 1
    /\ \E e \in StageInsns : orb' = [orb EXCEPT !.orbit = <<e>> \o orb.orbit]
    /\ UNCHANGED <<sec, qres, jt, elf, hist>>

NextStage ==
    \/ DecodeStage
    \/ EnterResolver
    \/ ScanStep
    \/ ScanExhausted

(***************************************************************************)
(* SpecTail: the resolver on orbits of immediate-constant sequences, and   *)
(* on orbit lists that are empty or do not start with the branch.          *)
(***************************************************************************)
MaxTail == 5

(* The instructions the decoder meets before the branch. *)
TailInsns ==
    { [word |-> Enc_reg2i12(lu52id_op, 0, 12, 12), rel |-> "none"],
      [word |-> Enc_reg1i20(lu32id_op, 0, 12), rel |-> "none"],
      [word |-> Enc_reg2i12(ori_op, 0, 12, 12), rel |-> "none"],
      [word |-> Enc_reg2i12(ori_op, 0, 13, 12), rel |-> "none"],
      [word |-> Enc_reg1i20(lu12iw_op, 0, 12), rel |-> "g_func"],
      [word |-> Enc_reg1i20(lu12iw_op, 0, 12), rel |-> "ext"],
      [word |-> Enc_reg1i20(lu12iw_op, 0, 12), rel |-> "none"],
      [word |-> Enc_reg3(ldxd_op, 12, 13, 12), rel |-> "none"],
      [word |-> Enc_reg1i20(pcaddu12i_op, 0, 13), rel |-> "none"],
      [word |-> Enc_reg1i20(pcaddu12i_op, 0, 13), rel |-> "L9"] }

InitTail ==
    /\ orb = [pc |-> "decode", orbit |-> <<>>, res |-> NoResult,
              headed |-> FALSE, next |-> 0]
    /\ sec = SecIdle /\ qres = NoQuery
    /\ jt = JtIdle /\ elf = ElfIdle /\ hist = HistIdle

DecodeTail ==
    /\ orb.pc = "decode"
    /\ Len(orb.orbit) < MaxTail - 1
    /\ \E e \in TailInsns : orb' = [orb EXCEPT !.orbit = <<e>> \o orb.orbit]
    /\ UNCHANGED <<sec, qres, jt, elf, hist>>

\* The resolver called for the branch, with the branch at the head of the
\* orbit list or with the list as it is without the branch.
ResolveTail ==
    /\ orb.pc = "decode"
    /\ \E headed \in BOOLEAN :
          LET orbit == IF headed THEN <<BranchInsn>> \o orb.orbit ELSE orb.orbit
          IN  \E next \in (IF Len(orbit) < 2 THEN HeadWords ELSE {orbit[2].word}) :
                 orb' = [pc |-> "resolved", orbit |-> orbit, headed |-> headed,
                         next |-> next,
                         res |-> arch_dynamic_add_jump_table_alts(orbit, BranchInsn,
                                                                  next)]
    /\ UNCHANGED <<sec, qres, jt, elf, hist>>

\* The resolver called for an orbit of the branch alone: the read through
\* list_next_entry(insn, orbit_node) (lines 116-117) follows the pointers
\* found in front of the list head and can fault.
ResolveFault ==
    /\ orb.pc = "decode"
    /\ Len(orb.orbit) = 0
    /\ orb' = [orb EXCEPT !.pc = "fault", !.orbit = <<BranchInsn>>,
                          !.headed = TRUE]
    /\ UNCHANGED <<sec, qres, jt, elf, hist>>

NextTail ==
    \/ DecodeTail
    \/ ResolveTail
    \/ ResolveFault

(***************************************************************************)
(* SpecReloc: the relocation hash and find_reloc_by_dest_range             *)
(*                                                                         *)
(* sec.relocs is the set of indexed relocations [sec, offset], sec the     *)
(* relocation section; sec.hash gives the bucket of each key (relocation   *)
(* section, stride of the offset).  A bucket holds every relocation whose  *)
(* key is mapped to it.  A returned relocation is named by its offset, -1  *)
(* for NULL.                                                               *)
(***************************************************************************)
MaxRelocs == 3

OFFSET_STRIDE == 16

RelocSecs == {"A", "B"}

RelocChoices ==
    { [sec |-> "A", offset |-> 4], [sec |-> "A", offset |-> 20],
      [sec |-> "A", offset |-> 36], [sec |-> "B", offset |-> 20] }

HashKeys == RelocSecs \X {k * OFFSET_STRIDE : k \in 0..3}

HashBuckets == {1, 2}

\* offset & OFFSET_STRIDE_MASK
StrideOf(offset) == offset - (offset % OFFSET_STRIDE)

\* elf_hash_for_each_possible(reloc, reloc, hash, sec_offset_hash(s, o)):
\* the relocations in the bucket of the key (s, o).
HashBucket(st, s, o) ==
    {q \in st.relocs : st.hash[<<q.sec, StrideOf(q.offset)>>] = st.hash[<<s, o>>]}

\* The relocation of the lowest offset in a non-empty set.
LowestReloc(cands) == CHOOSE q \in cands : \A x \in cands : q.offset <= x.offset

\* The loop of find_reloc_by_dest_range from stride o on.
RECURSIVE RangeLoop(_, _, _, _, _)
RangeLoop(st, s, o, offset, len) ==
    IF o > StrideOf(offset + len) THEN 0 - 1
    ELSE LET cands == {q \in HashBucket(st, s, o) :
                          /\ q.sec = s
                          /\ q.offset >= offset /\ q.offset < offset + len}
         IN  IF cands # {} THEN LowestReloc(cands).offset
             ELSE RangeLoop(st, s, o + OFFSET_STRIDE, offset, len)

\* find_reloc_by_dest_range(elf, sec, offset, len), s the relocation section
\* of sec, "none" when sec has none.
find_reloc_by_dest_range(st, s, offset, len) ==
    IF s = "none" THEN 0 - 1
    ELSE RangeLoop(st, s, StrideOf(offset), offset, len)

InitReloc ==
    /\ \E h \in [HashKeys -> HashBuckets] : sec = [hash |-> h, relocs |-> {}]
    /\ qres = NoQuery
    /\ jt = JtIdle /\ orb = OrbIdle /\ elf = ElfIdle /\ hist = HistIdle

\* read_relocs / elf_add_reloc: one more relocation in the hash.
HashReloc ==
    /\ qres = NoQuery
    /\ Cardinality(sec.relocs) < MaxRelocs
    /\ \E q \in RelocChoices \ sec.relocs :
          sec' = [sec EXCEPT !.relocs = @ \cup {q}]
    /\ UNCHANGED <<qres, jt, orb, elf, hist>>

FindRelocRange ==
    /\ qres = NoQuery
    /\ \E s \in RelocSecs \cup {"none"} : \E offset \in {0, 8, 20} :
       \E len \in {1, 16, 32} :
          qres' = [op |-> "range", arg |-> <<s, offset, len>>,
                   ret |-> find_reloc_by_dest_range(sec, s, offset, len)]
    /\ UNCHANGED <<sec, jt, orb, elf, hist>>

RangeReturn ==
    /\ qres.op = "range"
    /\ qres' = NoQuery
    /\ UNCHANGED <<sec, jt, orb, elf, hist>>

NextReloc ==
    \/ HashReloc
    \/ FindRelocRange
    \/ RangeReturn

(***************************************************************************)
(* The ELF model: .symtab, the index hash, relocation sections.            *)
(*                                                                         *)
(* elf.syms[id] is a struct symbol: bind, idx, changed and rl, its         *)
(* reloc_list.  elf.symhash is the symbol hash, newest entry first, each   *)
(* entry the key a symbol was hashed under.  elf.symtab is the section     *)
(* .symtab: sh_size and the data blocks count entries (sh_entsize =        *)
(* sizeof(GElf_Sym)); a slot of a data block holds the id of the symbol    *)
(* whose GElf_Sym was written there, 0 for zeroed bytes, -j for the j-th   *)
(* queued section symbol.  elf.relocs[id] is a struct reloc, sym and next  *)
(* 0 for NULL.  elf.rsec[b] is the relocation section of base section b.   *)
(***************************************************************************)
MAX_NUM_ORC_ADD_SYMS == 2

Bases == {"B", "N"}

NoReloc == 0

RECURSIVE FirstHashed(_, _, _)
FirstHashed(e, k, idx) ==
    IF k > Len(e.symhash) THEN NoSym
    ELSE IF e.symhash[k].key = idx /\ e.syms[e.symhash[k].id].idx = idx
         THEN e.symhash[k].id
         ELSE FirstHashed(e, k + 1, idx)

\* find_symbol_by_index: the first symbol of idx's hash chain whose idx is
\* idx.
find_symbol_by_index(e, idx) == FirstHashed(e, 1, idx)

\* elf_hash_add(symbol, &sym->hash, sym->idx)
SymHashAdd(e, id) ==
    [e EXCEPT !.symhash = <<[key |-> e.syms[id].idx, id |-> id]>> \o @]

\* hlist_del(&old->hash); elf_hash_add(symbol, &old->hash, old->idx)
SymRehash(e, id) ==
    SymHashAdd([e EXCEPT !.symhash = SelectSeq(@, LAMBDA h : h.id # id)], id)

\* elf_dirty_reloc_sym: the section of every relocation on the symbol's
\* reloc_list is marked changed.
elf_dirty_reloc_sym(e, s) ==
    [e EXCEPT !.rsec = [b \in Bases |->
        IF \E k \in 1..Len(e.syms[s].rl) : e.relocs[e.syms[s].rl[k]].sec = b
        THEN [@[b] EXCEPT !.changed = TRUE]
        ELSE @[b]]]

\* The loop of elf_update_symbol over the data blocks: the block that holds
\* index idx and the index within it; blk 0 at the end of the list, -1 at
\* an empty block.
RECURSIVE FindBlock(_, _, _)
FindBlock(data, b, idx) ==
    IF b > Len(data) THEN [blk |-> 0, idx |-> idx]
    ELSE IF Len(data[b]) = 0 THEN [blk |-> -1, idx |-> idx]
    ELSE IF idx < Len(data[b]) THEN [blk |-> b, idx |-> idx]
    ELSE FindBlock(data, b + 1, idx - Len(data[b]))

\* elf_update_symbol: write the symbol's entry at its idx, in a new
\* over-allocated block when idx is the next entry past the data.
elf_update_symbol(e, id) ==
    LET r == FindBlock(e.symtab.data, 1, e.syms[id].idx)
    IN  IF r.blk = -1 THEN [ok |-> FALSE, e |-> e]
        ELSE IF r.blk = 0
        THEN IF r.idx # 0 THEN [ok |-> FALSE, e |-> e]
             ELSE LET num == Max(1, e.syms[id].idx \div 3)
                      buf == [i \in 1..num |-> IF i = 1 THEN id ELSE 0]
                  IN  [ok |-> TRUE,
                       e |-> [e EXCEPT !.symtab.data = Append(@, buf),
                                       !.symtab.changed = TRUE,
                                       !.symtab.truncate = TRUE]]
        ELSE [ok |-> TRUE,
              e |-> [e EXCEPT !.symtab.data[r.blk][r.idx + 1] = id]]

\* __elf_create_symbol from the label non_local on: the new symbol gets
\* new_idx and is written; the symbol table grows by one entry.
CreateAt(e, bind, new_idx) ==
    LET new == Len(e.syms) + 1
        e1 == [e EXCEPT !.syms = Append(@, [bind |-> bind, idx |-> new_idx,
                                            changed |-> FALSE, rl |-> <<>>])]
        u == elf_update_symbol(e1, new)
    IN  IF ~u.ok THEN [ok |-> FALSE, e |-> e, sym |-> NoSym]
        ELSE [ok |-> TRUE, sym |-> new,
              e |-> [u.e EXCEPT !.symtab.sh_size = @ + 1,
                                !.symtab.changed = TRUE]]

\* __elf_create_symbol with the moved symbol left under its old hash key.
elf_create_symbol_no_rehash(e, bind) ==
    IF bind # "STB_LOCAL" THEN CreateAt(e, bind, e.symtab.sh_size)
    ELSE LET first_non_local == e.symtab.sh_info
             old == find_symbol_by_index(e, first_non_local)
         IN  IF old # NoSym
             THEN LET e1 == [e EXCEPT !.syms[old].idx = e.symtab.sh_size]
                      u == elf_update_symbol(elf_dirty_reloc_sym(e1, old), old)
                  IN  IF ~u.ok THEN [ok |-> FALSE, e |-> u.e, sym |-> NoSym]
                      ELSE CreateAt([u.e EXCEPT !.symtab.sh_info = @ + 1],
                                    bind, first_non_local)
             ELSE CreateAt([e EXCEPT !.symtab.sh_info = @ + 1],
                           bind, e.symtab.sh_size)

\* __elf_create_symbol: [ok, e, sym]; ok is FALSE where it returns NULL,
\* with e as the failed call leaves it.
elf_create_symbol(e, bind) ==
    IF bind # "STB_LOCAL" THEN CreateAt(e, bind, e.symtab.sh_size)
    ELSE LET first_non_local == e.symtab.sh_info
             old == find_symbol_by_index(e, first_non_local)
         IN  IF old # NoSym
             THEN LET e1 == SymRehash([e EXCEPT !.syms[old].idx = e.symtab.sh_size],
                                      old)
                      u == elf_update_symbol(elf_dirty_reloc_sym(e1, old), old)
                  IN  IF ~u.ok THEN [ok |-> FALSE, e |-> u.e, sym |-> NoSym]
                      ELSE CreateAt([u.e EXCEPT !.symtab.sh_info = @ + 1],
                                    bind, first_non_local)
             ELSE CreateAt([e EXCEPT !.symtab.sh_info = @ + 1],
                           bind, e.symtab.sh_size)

\* elf_create_section_symbol / elf_create_prefix_symbol: create the symbol
\* and, if that succeeded, elf_add_symbol it.
elf_create_section_symbol(e, bind) ==
    LET c == elf_create_symbol(e, bind)
    IN  IF c.ok THEN [c EXCEPT !.e = SymHashAdd(c.e, c.sym)] ELSE c

\* read_relocs over the entries of base section B's relocation section.
RECURSIVE ReadRelocLoop(_, _, _, _)
ReadRelocLoop(e, entries, i, last_reloc) ==
    IF i > Len(entries) THEN e
    ELSE LET ent == entries[i]
             id == Len(e.relocs) + 1
             sym == find_symbol_by_index(e, ent.symidx)
             reloc == [sec |-> "B", offset |-> ent.offset, type |-> ent.type,
                       sym |-> sym,
                       addend |-> IF e.rsec["B"].type = "SHT_RELA"
                                  THEN ent.addend ELSE 0,
                       next |-> NoReloc]
             e1 == [e EXCEPT !.relocs = Append(@, reloc)]
         IN  IF last_reloc # NoReloc /\ e.relocs[last_reloc].offset = ent.offset
             THEN ReadRelocLoop([e1 EXCEPT !.relocs[last_reloc].next = id],
                                entries, i + 1, id)
             ELSE ReadRelocLoop([e1 EXCEPT !.syms[sym].rl = Append(@, id),
                                           !.rsec["B"].list = Append(@, id)],
                                entries, i + 1, id)

read_relocs(e) == ReadRelocLoop(e, e.rsec["B"].data, 1, NoReloc)

\* elf_create_reloc_section(elf, base, SHT_RELA): an empty section.
elf_create_reloc_section(e, base) ==
    [e EXCEPT !.rsec[base] = [exists |-> TRUE, type |-> "SHT_RELA", sh_size |-> 0,
                              changed |-> TRUE, list |-> <<>>, data |-> <<>>]]

\* elf_add_reloc(elf, base, offset, type, sym, addend, prev)
elf_add_reloc(e, base, offset, type, sym, addend, prev) ==
    LET e0 == IF e.rsec[base].exists THEN e ELSE elf_create_reloc_section(e, base)
        id == Len(e0.relocs) + 1
        reloc == [sec |-> base, offset |-> offset, type |-> type, sym |-> sym,
                  addend |-> addend, next |-> NoReloc]
        e1 == [e0 EXCEPT !.relocs = Append(@, reloc)]
        e2 == IF prev # NoReloc
              THEN [e1 EXCEPT !.relocs[prev].next = id]
              ELSE [e1 EXCEPT !.syms[sym].rl = Append(@, id),
                              !.rsec[base].list = Append(@, id)]
    IN  [e2 EXCEPT !.rsec[base].sh_size = @ + 1, !.rsec[base].changed = TRUE]

\* elf_create_section for a section named .orc_unwind*: its section symbol
\* is queued; [ok, e].
elf_create_section(e) ==
    IF Len(e.add_syms) >= MAX_NUM_ORC_ADD_SYMS THEN [ok |-> FALSE, e |-> e]
    ELSE [ok |-> TRUE,
          e |-> [e EXCEPT !.add_syms =
                              Append(@, [idx |-> e.first_nonlocal_sym + Len(e.add_syms)]),
                          !.symtab.sh_size = @ + 1,
                          !.symtab.sh_info = @ + 1,
                          !.symtab.changed = TRUE]]

\* elf_truncate_section: clip the data blocks to size entries; [ret, data].
RECURSIVE TruncateLoop(_, _, _, _)
TruncateLoop(data, b, size, truncated) ==
    IF b > Len(data) THEN [ret |-> IF size # 0 THEN -1 ELSE 0, data |-> data]
    ELSE IF truncated THEN [ret |-> -1, data |-> data]
    ELSE IF Len(data[b]) = 0 THEN [ret |-> -1, data |-> data]
    ELSE IF Len(data[b]) > size
    THEN TruncateLoop([data EXCEPT ![b] = SubSeq(@, 1, size)], b + 1, 0, TRUE)
    ELSE TruncateLoop(data, b + 1, size - Len(data[b]), FALSE)

elf_truncate_section(data, size) == TruncateLoop(data, 1, size, FALSE)

\* A relocation and the relocations chained behind it through next.
RECURSIVE Chain(_, _)
Chain(e, r) ==
    IF r = NoReloc THEN <<>> ELSE <<r>> \o Chain(e, e.relocs[r].next)

\* list_for_each_entry(reloc, &sec->reloc_list, list)
\*     for (p = reloc; p; p = p->next)
RECURSIVE ListWithChains(_, _, _)
ListWithChains(e, list, k) ==
    IF k > Len(list) THEN <<>>
    ELSE Chain(e, list[k]) \o ListWithChains(e, list, k + 1)

\* The part of elf_adjust_nonlocal_symbol that splices the queued section
\* symbols into .symtab's data (lines 1483-1519).
SpliceSymtab(e) ==
    LET k == Len(e.add_syms)
        f == e.first_nonlocal_sym
        n == e.symtab.sh_size - k
        sym == e.symtab.data[1]
        special == IF n < f + k THEN f + k - n ELSE 0
        buf == [j \in 1..k |->
                  IF j <= special THEN 0 - (k - special + j) ELSE sym[n - k + j]]
        first == [p \in 1..Len(sym) |->
                  IF p - 1 >= f /\ p - 1 < f + k - special THEN 0 - (p - f)
                  ELSE IF special = 0 /\ p - 1 >= f + k /\ p - 1 < n
                       THEN sym[p - k]
                       ELSE sym[p]]
    IN  [e EXCEPT !.symtab.data = Append([@ EXCEPT ![1] = first], buf)]

\* The part of elf_adjust_nonlocal_symbol that adjusts one SHT_RELA section
\* (lines 1522-1561); [ok, e], ok FALSE where the assertion fails.
AdjustRela(e, b) ==
    LET k == Len(e.add_syms)
        f == e.first_nonlocal_sym
        s == e.rsec[b]
    IN  IF ~s.exists \/ s.type # "SHT_RELA" THEN [ok |-> TRUE, e |-> e]
        ELSE IF Len(s.data) # s.sh_size THEN [ok |-> FALSE, e |-> e]
        ELSE LET data == [i \in 1..Len(s.data) |->
                            IF s.data[i].symidx >= f
                            THEN [s.data[i] EXCEPT !.symidx = @ + k]
                            ELSE s.data[i]]
                 ps == Range(ListWithChains(e, s.list, 1))
                 hit == {e.relocs[p].sym : p \in {q \in ps :
                            /\ e.relocs[q].sym # NoSym
                            /\ e.syms[e.relocs[q].sym].idx >= f}}
             IN  [ok |-> TRUE,
                  e |-> [e EXCEPT
                     !.rsec[b].data = data,
                     !.rsec[b].changed =
                         @ \/ hit # {} \/ \E i \in 1..Len(s.data) : s.data[i].symidx >= f,
                     !.syms = [id \in 1..Len(e.syms) |->
                                 IF id \in hit /\ ~e.syms[id].changed
                                 THEN [e.syms[id] EXCEPT !.idx = @ + k,
                                                         !.changed = TRUE]
                                 ELSE e.syms[id]]]]

\* elf_adjust_nonlocal_symbol: [ret, e]; ret is "assert" where an
\* assertion fails and the program aborts.
elf_adjust_nonlocal_symbol(e) ==
    IF ~e.symtab.changed THEN [ret |-> "ok", e |-> e]
    ELSE IF e.symtab.sh_size - Len(e.add_syms) # Len(e.symtab.data[1])
    THEN [ret |-> "assert", e |-> e]
    ELSE LET e1 == SpliceSymtab(e)
             a == AdjustRela(e1, "B")
             c == AdjustRela(a.e, "N")
         IN  IF ~a.ok THEN [ret |-> "assert", e |-> a.e]
             ELSE IF ~c.ok THEN [ret |-> "assert", e |-> c.e]
             ELSE [ret |-> "ok", e |-> c.e]

\* What a relocation contributes to its section's data.
RelaEntry(e, p) ==
    [offset |-> e.relocs[p].offset, type |-> e.relocs[p].type,
     symidx |-> IF e.relocs[p].sym # NoSym THEN e.syms[e.relocs[p].sym].idx ELSE 0,
     addend |-> e.relocs[p].addend]

RelEntry(e, p) ==
    [offset |-> e.relocs[p].offset, type |-> e.relocs[p].type,
     symidx |-> e.syms[e.relocs[p].sym].idx, addend |-> 0]

\* elf_rebuild_rela_reloc_section: a buffer of sh_size entries, filled from
\* the list and the chains; g is what the malloc'ed bytes not written hold.
elf_rebuild_rela_reloc_section(e, b, g) ==
    LET s == e.rsec[b]
        ps == ListWithChains(e, s.list, 1)
    IN  IF Len(ps) > s.sh_size THEN [ret |-> -1, e |-> e]
        ELSE [ret |-> 0,
              e |-> [e EXCEPT !.rsec[b].data =
                        [i \in 1..s.sh_size |->
                           IF i <= Len(ps) THEN RelaEntry(e, ps[i]) ELSE g]]]

\* elf_rebuild_rel_reloc_section: filled from the list alone.
elf_rebuild_rel_reloc_section(e, b, g) ==
    LET s == e.rsec[b]
    IN  IF Len(s.list) > s.sh_size THEN [ret |-> -1, e |-> e]
        ELSE [ret |-> 0,
              e |-> [e EXCEPT !.rsec[b].data =
                        [i \in 1..s.sh_size |->
                           IF i <= Len(s.list) THEN RelEntry(e, s.list[i]) ELSE g]]]

\* A pass that regenerates the section whether it changed or not.
WriteRelocSectionAlways(e, b, g) ==
    IF ~e.rsec[b].exists THEN [ret |-> 0, e |-> e]
    ELSE IF e.rsec[b].type = "SHT_REL"
         THEN elf_rebuild_rel_reloc_section(e, b, g)
         ELSE elf_rebuild_rela_reloc_section(e, b, g)

\* elf_write's pass over one relocation section.
WriteRelocSection(e, b, g) ==
    IF ~e.rsec[b].exists \/ ~e.rsec[b].changed THEN [ret |-> 0, e |-> e]
    ELSE LET r == IF e.rsec[b].type = "SHT_REL"
                  THEN elf_rebuild_rel_reloc_section(e, b, g)
                  ELSE elf_rebuild_rela_reloc_section(e, b, g)
         IN  IF r.ret # 0 THEN r
             ELSE [ret |-> 0, e |-> [r.e EXCEPT !.rsec[b].changed = FALSE]]

\* elf_write: the model after the call; phase is "written" after
\* elf_update, "failed" where elf_write returns -1, "aborted" where an
\* assertion ends the program.
elf_write(e, g) ==
    LET a == elf_adjust_nonlocal_symbol(e)
        t == IF a.e.symtab.truncate
             THEN [a.e EXCEPT !.symtab.data =
                       elf_truncate_section(a.e.symtab.data, a.e.symtab.sh_size).data]
             ELSE a.e
        t1 == [t EXCEPT !.symtab.changed = FALSE]
        wb == WriteRelocSection(t1, "B", g)
        wn == WriteRelocSection(wb.e, "N", g)
    IN  IF a.ret = "assert" THEN [a.e EXCEPT !.phase = "aborted"]
        ELSE IF wb.ret # 0 THEN [wb.e EXCEPT !.phase = "failed"]
        ELSE IF wn.ret # 0 THEN [wn.e EXCEPT !.phase = "failed"]
        ELSE [wn.e EXCEPT !.phase = "written"]

(***************************************************************************)
(* SpecElf: an object file is opened, symbols, sections and relocations    *)
(* are added, and the file is written back.                                *)
(***************************************************************************)
MaxSyms0 == 3
MaxOps == 3

FileEntry(type, offset, symidx) ==
    [offset |-> offset, type |-> "R_LARCH_64", symidx |-> symidx,
     addend |-> IF type = "SHT_RELA" THEN 8 ELSE 0]

\* The entries of base section B's relocation section in the file, for a
\* symbol table of MaxSyms0 entries whose first info are local: none; one
\* on the first non-local; two at one offset, on the last local and on the
\* first non-local; two at different offsets.
RelocImages(type, info) ==
    LET a == info - 1
        b == IF info < MaxSyms0 THEN info ELSE MaxSyms0 - 1
        c == MaxSyms0 - 1
    IN  { <<>>,
          <<FileEntry(type, 0, b)>>,
          <<FileEntry(type, 0, a), FileEntry(type, 0, b)>>,
          <<FileEntry(type, 0, b), FileEntry(type, 8, c)>> }

\* What the bytes of a malloc'ed entry that was never written can hold.
UnwrittenEntries ==
    { [offset |-> 0, type |-> "R_LARCH_NONE", symidx |-> 0, addend |-> 0],
      [offset |-> 16, type |-> "R_LARCH_32_PCREL", symidx |-> 1, addend |-> 4] }

HistNone == [op |-> "none", bind |-> "none", ok |-> FALSE, sym |-> NoSym,
             sh_info |-> 0, sh_size |-> 0, idx |-> <<>>, symhash |-> <<>>,
             changed |-> <<>>]

\* elf_open_read up to read_symbols: the symbols by index, the locals
\* first.
OpenedElf(type, info, image) ==
    [phase |-> "file",
     syms |-> [i \in 1..MaxSyms0 |->
                 [bind |-> IF i <= info THEN "STB_LOCAL" ELSE "STB_GLOBAL",
                  idx |-> i - 1, changed |-> FALSE, rl |-> <<>>]],
     symhash |-> [k \in 1..MaxSyms0 |->
                    [key |-> MaxSyms0 - k, id |-> MaxSyms0 - k + 1]],
     symtab |-> [sh_size |-> MaxSyms0, sh_info |-> info, changed |-> FALSE,
                 truncate |-> FALSE, data |-> <<[i \in 1..MaxSyms0 |-> i]>>],
     first_nonlocal_sym |-> info,
     add_syms |-> <<>>,
     relocs |-> <<>>,
     rsec |-> [b \in Bases |->
                 IF b = "B"
                 THEN [exists |-> TRUE, type |-> type, sh_size |-> Len(image),
                       changed |-> FALSE, list |-> <<>>, data |-> image]
                 ELSE [exists |-> FALSE, type |-> "SHT_NULL", sh_size |-> 0,
                       changed |-> FALSE, list |-> <<>>, data |-> <<>>]],
     nread |-> 0,
     ops |-> 0,
     nadd |-> 0]

InitElf ==
    /\ \E type \in {"SHT_REL", "SHT_RELA"} : \E info \in 1..MaxSyms0 :
       \E image \in RelocImages(type, info) :
          elf = OpenedElf(type, info, image)
    /\ hist = HistNone
    /\ sec = SecIdle /\ qres = NoQuery
    /\ jt = JtIdle /\ orb = OrbIdle

LoadRelocs ==
    /\ elf.phase = "file"
    /\ elf' = [read_relocs(elf) EXCEPT !.phase = "run",
                                       !.nread = Len(elf.rsec["B"].data)]
    /\ hist' = HistNone
    /\ UNCHANGED <<sec, qres, jt, orb>>

\* elf_create_section_symbol (a local symbol) or elf_create_prefix_symbol
\* (a symbol of the function's binding).
AddSymbol ==
    /\ elf.phase = "run" /\ elf.ops < MaxOps
    /\ \E bind \in {"STB_LOCAL", "STB_GLOBAL"} :
          LET c == elf_create_section_symbol(elf, bind)
          IN  /\ elf' = [c.e EXCEPT !.ops = @ + 1,
                                     !.nadd = IF c.ok THEN @ + 1 ELSE @]
              /\ hist' = [op |-> "add", bind |-> bind, ok |-> c.ok, sym |-> c.sym,
                          sh_info |-> elf.symtab.sh_info,
                          sh_size |-> elf.symtab.sh_size,
                          idx |-> [i \in 1..Len(elf.syms) |-> elf.syms[i].idx],
                          symhash |-> elf.symhash,
                          changed |-> <<elf.rsec["B"].changed,
                                        elf.rsec["N"].changed>>]
    /\ UNCHANGED <<sec, qres, jt, orb>>

CreateOrcSection ==
    /\ elf.phase = "run" /\ elf.ops < MaxOps
    /\ elf' = [elf_create_section(elf).e EXCEPT !.ops = @ + 1]
    /\ hist' = HistNone
    /\ UNCHANGED <<sec, qres, jt, orb>>

\* elf_add_reloc on a symbol, or chained behind the relocation added just
\* before (elf_add_reloc_to_insn with prev).
AddReloc ==
    /\ elf.phase = "run" /\ elf.ops < MaxOps
    /\ \E base \in Bases : \E chained \in BOOLEAN :
          LET prev == Len(elf.relocs)
          IN  /\ chained => /\ prev > elf.nread
                            /\ elf.relocs[prev].sec = base
              /\ elf' = [elf_add_reloc(elf, base, 16, "R_LARCH_32_PCREL",
                                       IF chained THEN NoSym ELSE MaxSyms0, 4,
                                       IF chained THEN prev ELSE NoReloc)
                           EXCEPT !.ops = @ + 1]
    /\ hist' = HistNone
    /\ UNCHANGED <<sec, qres, jt, orb>>

Write ==
    /\ elf.phase = "run"
    /\ \E g \in UnwrittenEntries : elf' = elf_write(elf, g)
    /\ hist' = HistNone
    /\ UNCHANGED <<sec, qres, jt, orb>>

NextElf ==
    \/ LoadRelocs
    \/ AddSymbol
    \/ CreateOrcSection
    \/ AddReloc
    \/ Write

(***************************************************************************)
(* read_symbols: parent/child links of cold subfunctions                   *)
(***************************************************************************)
MaxColdSyms == 4

MAX_NAME_LEN == 128

\* A symbol name is its string, one character per element.
ColdStr == <<".", "c", "o", "l", "d">>

\* strstr(): the position of the first occurrence of pat in name, 0 for NULL.
StrStr(name, pat) ==
    LET at == {i \in 1..(Len(name) - Len(pat) + 1) :
                  SubSeq(name, i, i + Len(pat) - 1) = pat}
    IN  IF at = {} THEN 0 ELSE CHOOSE i \in at : \A j \in at : i <= j

\* The symbols a symbol table is made of: name, type and range as read from
\* the file. A function has at most one cold part.
ColdSym(name, type, s, offset, size) ==
    [name |-> name, type |-> type, sec |-> s, offset |-> offset,
     st_size |-> size, len |-> size, pfunc |-> 0, cfunc |-> 0]

ColdChoices ==
    { ColdSym(<<"f">>, "STT_FUNC", "T", 0, 16),
      ColdSym(<<"f">> \o ColdStr, "STT_FUNC", "T", 12, 4),
      ColdSym(<<"f">> \o ColdStr, "STT_FUNC", "T", 8, 4),
      ColdSym(<<"f">> \o ColdStr, "STT_FUNC", "U", 0, 4),
      ColdSym(<<"g">>, "STT_OBJECT", "D", 0, 8),
      ColdSym(<<"g">> \o ColdStr, "STT_FUNC", "T", 32, 4),
      ColdSym(<<"h">>, "STT_FUNC", "T", 16, 8),
      ColdSym(<<"k">> \o ColdStr, "STT_NOTYPE", "T", 40, 0),
      ColdSym(<<"z">> \o ColdStr \o <<".", "1">>, "STT_FUNC", "U", 8, 4) }

\* find_symbol_by_name(): the position of the symbol of that name, 0 for NULL.
find_symbol_by_name(syms, name) ==
    LET named == {p \in 1..Len(syms) : syms[p].name = name}
    IN  IF named = {} THEN 0 ELSE CHOOSE p \in named : \A q \in named : p <= q

\* The child inside the parent: the overlap is removed from the parent.
RemoveOverlapNever(pfunc, sym) == pfunc

RemoveOverlap(pfunc, sym) ==
    IF /\ sym.sec = pfunc.sec
       /\ sym.offset >= pfunc.offset
       /\ sym.offset + sym.len = pfunc.offset + pfunc.len
    THEN [pfunc EXCEPT !.len = @ - sym.len]
    ELSE pfunc

\* One round of the loop over the symbols, for the symbol at position i.
\* The result is the symbols and whether the loop goes on.
ColdStep(syms, i) ==
    IF syms[i].type # "STT_FUNC" THEN [ok |-> TRUE, syms |-> syms]
    ELSE
    LET s1 == [syms EXCEPT ![i].pfunc = IF @ = 0 THEN i ELSE @,
                           ![i].cfunc = IF @ = 0 THEN i ELSE @]
        coldstr == StrStr(syms[i].name, ColdStr)
        pnamelen == coldstr - 1
        pfunc == find_symbol_by_name(s1, SubSeq(syms[i].name, 1, pnamelen))
    IN  IF coldstr = 0 THEN [ok |-> TRUE, syms |-> s1]
        ELSE IF pnamelen > MAX_NAME_LEN THEN [ok |-> FALSE, syms |-> s1]
        ELSE IF pfunc = 0 THEN [ok |-> FALSE, syms |-> s1]
        ELSE LET s2 == [s1 EXCEPT ![i].pfunc = pfunc]
                 s3 == [s2 EXCEPT ![pfunc].cfunc = i]
             IN  [ok |-> TRUE,
                  syms |-> [s3 EXCEPT ![pfunc] = RemoveOverlap(@, s3[i])]]

RECURSIVE ColdLoop(_, _)
ColdLoop(syms, i) ==
    IF i > Len(syms) THEN [ret |-> 0, syms |-> syms]
    ELSE LET r == ColdStep(syms, i)
         IN  IF r.ok THEN ColdLoop(r.syms, i + 1)
             ELSE [ret |-> 0 - 1, syms |-> r.syms]

InitCold ==
    /\ elf = [phase |-> "symtab", syms |-> <<>>, ret |-> 0]
    /\ sec = SecIdle
    /\ qres = NoQuery
    /\ jt = JtIdle
    /\ orb = OrbIdle
    /\ hist = HistIdle

\* The loop that reads the symbols of the file, one symbol per round.
ReadColdSymbol ==
    /\ elf.phase = "symtab"
    /\ Len(elf.syms) < MaxColdSyms
    /\ \E s \in ColdChoices :
          /\ \A p \in 1..Len(elf.syms) : elf.syms[p].name # s.name
          /\ elf' = [elf EXCEPT !.syms = Append(@, s)]
    /\ UNCHANGED <<sec, qres, jt, orb, hist>>

\* The loop that links the cold subfunctions and the return of read_symbols.
LinkCold ==
    /\ elf.phase = "symtab"
    /\ LET r == ColdLoop(elf.syms, 1)
       IN  elf' = [phase |-> IF r.ret = 0 THEN "loaded" ELSE "failed",
                   syms |-> r.syms, ret |-> r.ret]
    /\ UNCHANGED <<sec, qres, jt, orb, hist>>

NextCold ==
    \/ ReadColdSymbol
    \/ LinkCold

(***************************************************************************)
(* elf_open_read: the loader and its failures                              *)
(***************************************************************************)
MaxLoad == 2

\* What the file holds for one section: its name (NoName when the section
\* name string table does not yield one), sh_size and the attributes of the
\* data libelf returns for it.
NoName == "(null)"

LoadSections ==
    [name : {".symtab", ".text", ".rela.text", NoName},
     sh_size : {0, 8},
     data : {"ok", "d_off", "d_size"}]

\* What the file holds for one symbol: whether its name is in the string
\* table and whether its section index names a section.
LoadSymbols == [name : {"sym", NoName}, sec : {"found", "none"}]

\* What the file holds for one relocation section: whether sh_info names a
\* section and whether the entry's symbol index names a symbol.
LoadRelocSecs == [base : {"found", "none"}, sym : {"found", "none"}]

\* The outcomes of undefined behaviour on the way out of the loader:
\* the call returns NULL all the same, or the process is ended.
UndefinedReturns == {"NULL", "abort"}

FreshLoad ==
    [pc |-> "sections", secs |-> <<>>, syms |-> <<>>, rsec |-> 1,
     ret |-> "none"]

\* err: elf_close(elf); return NULL.
CloseAndReturnNull(e) ==
    [e EXCEPT !.pc = "done", !.secs = <<>>, !.syms = <<>>, !.ret = "NULL"]

\* One round of the loop of read_sections.
read_section(e, s) ==
    IF s.name = NoName THEN CloseAndReturnNull(e)
    ELSE IF s.sh_size # 0 /\ s.data # "ok" THEN CloseAndReturnNull(e)
    ELSE [e EXCEPT !.secs = Append(@, s)]

find_section_by_name(e, name) ==
    \E i \in 1..Len(e.secs) : e.secs[i].name = name

\* One round of the loop of read_symbols that reads the symbols. The
\* symbol is an element of the array symbol_data, which err: frees.
read_symbol(e, s, undefined) ==
    IF s.name = NoName \/ s.sec = "none"
    THEN [CloseAndReturnNull(e) EXCEPT !.ret = undefined]
    ELSE [e EXCEPT !.syms = Append(@, s)]

\* One round of the loop of read_relocs over the sections.
read_reloc_section(e, r) ==
    IF e.secs[e.rsec].name # ".rela.text" THEN [e EXCEPT !.rsec = @ + 1]
    ELSE IF r.base = "none" THEN CloseAndReturnNull(e)
    ELSE IF r.sym = "none" THEN CloseAndReturnNull(e)
    ELSE [e EXCEPT !.rsec = @ + 1]

InitLoad ==
    /\ elf = FreshLoad
    /\ hist = [op |-> "load", fault |-> "none"]
    /\ sec = SecIdle
    /\ qres = NoQuery
    /\ jt = JtIdle
    /\ orb = OrbIdle

ReadSection ==
    /\ elf.pc = "sections"
    /\ Len(elf.secs) < MaxLoad
    /\ \E s \in LoadSections :
          /\ elf' = read_section(elf, s)
          /\ hist' = [hist EXCEPT !.fault =
                         IF s.name = NoName THEN "no section name string"
                         ELSE IF s.sh_size # 0 /\ s.data # "ok" THEN s.data
                         ELSE @]
    /\ UNCHANGED <<sec, qres, jt, orb>>

\* The end of read_sections and the lookup of .symtab in read_symbols.
FindSymtab ==
    /\ elf.pc = "sections"
    /\ elf' = [elf EXCEPT !.pc = IF find_section_by_name(elf, ".symtab")
                                 THEN "symbols" ELSE "relocs"]
    /\ hist' = [hist EXCEPT !.fault =
                   IF find_section_by_name(elf, ".symtab") THEN @
                   ELSE "no .symtab"]
    /\ UNCHANGED <<sec, qres, jt, orb>>

ReadSymbol ==
    /\ elf.pc = "symbols"
    /\ Len(elf.syms) < MaxLoad
    /\ \E s \in LoadSymbols, u \in UndefinedReturns :
          /\ elf' = read_symbol(elf, s, u)
          /\ hist' = [hist EXCEPT !.fault =
                         IF s.name = NoName THEN "no symbol name string"
                         ELSE IF s.sec = "none" THEN "no symbol section"
                         ELSE @]
    /\ UNCHANGED <<sec, qres, jt, orb>>

\* The end of read_symbols.
EndSymbols ==
    /\ elf.pc = "symbols"
    /\ elf' = [elf EXCEPT !.pc = "relocs"]
    /\ UNCHANGED <<sec, qres, jt, orb, hist>>

ReadRelocSection ==
    /\ elf.pc = "relocs"
    /\ elf.rsec <= Len(elf.secs)
    /\ \E r \in LoadRelocSecs :
          /\ elf' = read_reloc_section(elf, r)
          /\ hist' = [hist EXCEPT !.fault =
                         IF elf.secs[elf.rsec].name # ".rela.text" THEN @
                         ELSE IF r.base = "none" THEN "no base section"
                         ELSE IF r.sym = "none" THEN "no relocation symbol"
                         ELSE @]
    /\ UNCHANGED <<sec, qres, jt, orb>>

\* return elf.
ReturnElf ==
    /\ elf.pc = "relocs"
    /\ elf.rsec > Len(elf.secs)
    /\ elf' = [elf EXCEPT !.pc = "done", !.ret = "elf"]
    /\ UNCHANGED <<sec, qres, jt, orb, hist>>

NextLoad ==
    \/ ReadSection
    \/ FindSymtab
    \/ ReadSymbol
    \/ EndSymbols
    \/ ReadRelocSection
    \/ ReturnElf

(***************************************************************************)
(* elf_write on a section marked for truncation                            *)
(***************************************************************************)
MaxBlocks == 3
MaxBlockLen == 2

\* The lists of data blocks libelf may hold for .symtab, by their sizes in
\* entries.
TruncBlock(n) == [i \in 1..n |-> 0]

TruncData ==
    UNION {[1..n -> {TruncBlock(l) : l \in 0..MaxBlockLen}] : n \in 1..MaxBlocks}

\* The model of an opened file with .symtab's size, flags and data as given.
TruncElf(data, size, truncate, changed) ==
    [OpenedElf("SHT_RELA", 1, <<>>) EXCEPT
        !.phase = "run",
        !.symtab.data = data,
        !.symtab.sh_size = size,
        !.symtab.truncate = truncate,
        !.symtab.changed = changed]

\* What elf_truncate_section returns in elf_write, 0 where it is not called.
TruncateReturn(e) ==
    LET a == elf_adjust_nonlocal_symbol(e)
    IN  IF a.ret = "ok" /\ a.e.symtab.truncate
        THEN elf_truncate_section(a.e.symtab.data, a.e.symtab.sh_size).ret
        ELSE 0

InitTrunc ==
    /\ \E data \in TruncData, size \in 0..(MaxBlocks + 1),
          truncate \in BOOLEAN, changed \in BOOLEAN :
          elf = TruncElf(data, size, truncate, changed)
    /\ hist = [op |-> "truncate", ret |-> 0]
    /\ sec = SecIdle
    /\ qres = NoQuery
    /\ jt = JtIdle
    /\ orb = OrbIdle

WriteTruncated ==
    /\ elf.phase = "run"
    /\ \E g \in UnwrittenEntries : elf' = elf_write(elf, g)
    /\ hist' = [hist EXCEPT !.ret = TruncateReturn(elf)]
    /\ UNCHANGED <<sec, qres, jt, orb>>

NextTrunc == WriteTruncated

(***************************************************************************)
(* SpecRead: read_relocs on relocation sections whose entries come in any  *)
(* file order.  The relocation list of the section stands for the hash as  *)
(* well: read_relocs adds a relocation to both in the same place.          *)
(***************************************************************************)
MaxRead == 3

ReadOffsets == {0, 8}

\* The entries a relocation section of the file may hold, on the symbols of
\* index 1 and 2.
ReadEntries(type) ==
    {FileEntry(type, o, i) : o \in ReadOffsets, i \in {1, 2}}

ReadImages(type) ==
    UNION {[1..n -> ReadEntries(type)] : n \in 0..MaxRead}

InitRead ==
    /\ \E type \in {"SHT_REL", "SHT_RELA"} : \E image \in ReadImages(type) :
          elf = OpenedElf(type, 1, image)
    /\ hist = HistNone
    /\ sec = SecIdle /\ qres = NoQuery
    /\ jt = JtIdle /\ orb = OrbIdle

(***************************************************************************)
(* SpecSpill: the resolver run one orbit entry at a time on orbits with    *)
(* reloads from and stores to the stack.                                   *)
(***************************************************************************)
MaxSpill == 4

SpillOffsets == {0, 16}

(* The instructions the decoder meets before the branch. *)
SpillInsns ==
    { [word |-> Enc_reg2i12(ldd_op, 0, CFI_SP, 12), rel |-> "none"],
      [word |-> Enc_reg2i12(ldd_op, 16, CFI_SP, 12), rel |-> "none"],
      [word |-> Enc_reg2i12(std_op, 0, CFI_SP, 13), rel |-> "none"],
      [word |-> Enc_reg2i12(std_op, 16, CFI_SP, 13), rel |-> "none"],
      [word |-> Enc_reg3(ldxd_op, 12, 13, 12), rel |-> "none"],
      [word |-> Enc_reg3sa2(alsld_op, 3, 14, 13, 12), rel |-> "none"] }

DecodeSpill ==
    /\ orb.pc = "decode"
    /\ Len(orb.orbit) < MaxSpill - 1
    /\ \E e \in SpillInsns : orb' = [orb EXCEPT !.orbit = <<e>> \o orb.orbit]
    /\ UNCHANGED <<sec, qres, jt, elf, hist>>

NextSpill ==
    \/ DecodeSpill
    \/ EnterResolver
    \/ ScanStep
    \/ ScanExhausted

(***************************************************************************)
(* SpecOutcome: the resolver on orbits that mix the immediate-constant     *)
(* sequence of the first loop with the loads and anchors of the second.    *)
(***************************************************************************)
MaxOutcome == 5

(* The instructions the decoder meets before the branch. *)
OutcomeInsns ==
    { [word |-> Enc_reg2i12(lu52id_op, 0, 12, 12), rel |-> "none"],
      [word |-> Enc_reg1i20(lu32id_op, 0, 12), rel |-> "none"],
      [word |-> Enc_reg2i12(ori_op, 0, 12, 12), rel |-> "none"],
      [word |-> Enc_reg1i20(lu12iw_op, 0, 12), rel |-> "ext"],
      [word |-> Enc_reg1i20(lu12iw_op, 0, 12), rel |-> "g_func"],
      [word |-> Enc_reg3(ldxd_op, 12, 13, 12), rel |-> "none"],
      [word |-> Enc_reg1i20(pcaddu12i_op, 0, 13), rel |-> "L0"],
      [word |-> Enc_reg1i20(pcaddu12i_op, 0, 13), rel |-> "jumptable_7"],
      [word |-> Enc_reg1i20(pcaddu12i_op, 0, 13), rel |-> "ext"] }

DecodeOutcome ==
    /\ orb.pc = "decode"
    /\ Len(orb.orbit) < MaxOutcome - 1
    /\ \E e \in OutcomeInsns : orb' = [orb EXCEPT !.orbit = <<e>> \o orb.orbit]
    /\ UNCHANGED <<sec, qres, jt, elf, hist>>

NextOutcome ==
    \/ DecodeOutcome
    \/ ResolveBranch

(***************************************************************************)
(* SpecPrologue: the resolver on orbits with stack-pointer adjustments,    *)
(* called for a jirl and for a branch that is not a jirl.                  *)
(***************************************************************************)
MaxPrologue == 4

(* The instructions the decoder meets before the branch. *)
PrologueInsns ==
    { [word |-> Enc_reg2i12(addid_op, 0 - 16, CFI_SP, CFI_SP), rel |-> "none"],
      [word |-> Enc_reg2i12(addid_op, 16, CFI_SP, CFI_SP), rel |-> "none"],
      [word |-> Enc_reg2i12(addid_op, 8, CFI_SP, 12), rel |-> "none"],
      [word |-> Enc_reg2i12(addid_op, 8, 12, CFI_SP), rel |-> "none"],
      [word |-> Enc_reg3(ldxd_op, 12, 13, 12), rel |-> "none"],
      [word |-> Enc_reg1i20(pcaddu12i_op, 0, 13), rel |-> "L0"],
      [word |-> Enc_reg1i20(lu12iw_op, 0, 12), rel |-> "none"] }

(* The instruction the resolver is called for: jirl $zero, $t0, 0, or a
   word whose opcode is not jirl's (ldx.d). *)
PrologueHeads == {BranchInsn, [word |-> Enc_reg3(ldxd_op, 12, 13, 14), rel |-> "none"]}

DecodePrologue ==
    /\ orb.pc = "decode"
    /\ Len(orb.orbit) < MaxPrologue - 1
    /\ \E e \in PrologueInsns : orb' = [orb EXCEPT !.orbit = <<e>> \o orb.orbit]
    /\ UNCHANGED <<sec, qres, jt, elf, hist>>

ResolvePrologue ==
    /\ orb.pc = "decode"
    /\ \E insn \in PrologueHeads :
          LET orbit == <<insn>> \o orb.orbit
          IN  \E next \in (IF Len(orbit) = 1 THEN HeadWords ELSE {orbit[2].word}) :
                 orb' = [pc |-> "resolved", orbit |-> orbit,
                         res |-> arch_dynamic_add_jump_table_alts(orbit, insn, next)]
    /\ UNCHANGED <<sec, qres, jt, elf, hist>>

NextPrologue ==
    \/ DecodePrologue
    \/ ResolvePrologue

SpecSym == InitSym /\ [][NextSym]_vars

SpecElf == InitElf /\ [][NextElf]_vars

SpecOrbit == InitOrbit /\ [][NextOrbit]_vars

SpecTable == InitTable /\ [][NextTable]_vars

SpecTail == InitTail /\ [][NextTail]_vars

SpecReloc == InitReloc /\ [][NextReloc]_vars

SpecCold == InitCold /\ [][NextCold]_vars

SpecLoad == InitLoad /\ [][NextLoad]_vars

SpecTrunc == InitTrunc /\ [][NextTrunc]_vars

SpecMark == InitMark /\ [][NextMark]_vars

SpecAnchor == InitScan /\ [][NextAnchor]_vars

SpecStage == InitScan /\ [][NextStage]_vars

\* The resolver is a sequential function: it keeps running until it returns.
SpecRead == InitRead /\ [][LoadRelocs]_vars

SpecSpill == InitScan /\ [][NextSpill]_vars

SpecOutcome == InitOrbit /\ [][NextOutcome]_vars

SpecPrologue == InitOrbit /\ [][NextPrologue]_vars

SpecScan ==
    /\ InitScan
    /\ [][NextScan]_vars
    /\ WF_vars(ScanStep)
    /\ WF_vars(ScanExhausted)

(***************************************************************************)
(* Claims on the symbol list and the symbol queries                        *)
(***************************************************************************)
Contains(s, off) == s.len # 0 /\ s.offset <= off /\ off < s.offset + s.len

TreeSyms == Range(sec.tree)

\* The symbols in the tree are no section symbols and no two of them
\* overlap, except that two may cover the very same range.
TreeDisjoint ==
    /\ \A a \in TreeSyms : sec.syms[a].type # "STT_SECTION"
    /\ \A a, b \in TreeSyms :
          \/ sec.syms[a].offset + sec.syms[a].len <= sec.syms[b].offset
          \/ sec.syms[b].offset + sec.syms[b].len <= sec.syms[a].offset
          \/ /\ sec.syms[a].offset = sec.syms[b].offset
             /\ sec.syms[a].len = sec.syms[b].len

SomeContains(off) == \E a \in 1..Len(sec.syms) : Contains(sec.syms[a], off)
SomeEndsBefore(off) ==
    \E a \in 1..Len(sec.syms) :
        sec.syms[a].len # 0 /\ sec.syms[a].offset + sec.syms[a].len <= off
StartsAfter(off) ==
    {sec.syms[a].offset : a \in {b \in 1..Len(sec.syms) :
        sec.syms[b].len # 0 /\ sec.syms[b].offset > off}}
Least(S) == CHOOSE x \in S : \A y \in S : x <= y

\* C5 as stated: find_symbol_hole_containing returns 0 if and only if some
\* symbol of the section contains the offset; otherwise it returns the
\* positive distance to the start of the next symbol, or -1 when no symbol
\* follows.
C5_HoleAsStated ==
    qres.op = "hole" =>
        IF SomeContains(qres.arg) THEN qres.ret = 0
        ELSE IF StartsAfter(qres.arg) = {} THEN qres.ret = -1
        ELSE qres.ret = Least(StartsAfter(qres.arg)) - qres.arg

\* C5 as amended: in a section whose non-empty symbols are no section
\* symbols and do not overlap, find_symbol_hole_containing returns 0 if and
\* only if some symbol contains the offset or no symbol ends at or before
\* it; otherwise it returns the positive distance to the start of the next
\* symbol, or -1 when no symbol follows.
C5_HoleAfterSymbol ==
    (qres.op = "hole" /\ TreeDisjoint) =>
        IF SomeContains(qres.arg) \/ ~SomeEndsBefore(qres.arg) THEN qres.ret = 0
        ELSE IF StartsAfter(qres.arg) = {} THEN qres.ret = -1
        ELSE /\ qres.ret = Least(StartsAfter(qres.arg)) - qres.arg
             /\ qres.ret > 0

\* Scenario S2: a@[0,16) and b@[32,48), offset 20 gives 12.
C5_Witness ==
    /\ qres.op = "hole" /\ qres.arg = 20 /\ qres.ret = 12
    /\ TreeDisjoint
    /\ \E a, b \in TreeSyms :
          /\ sec.syms[a].offset = 0 /\ sec.syms[a].len = 16
          /\ sec.syms[b].offset = 32 /\ sec.syms[b].len = 16

IsAlias(a, b) ==
    /\ a # NoSym
    /\ sec.syms[a].offset = sec.syms[b].offset
    /\ sec.syms[a].type = sec.syms[b].type

\* C7 as stated: for a symbol of non-zero length,
\* find_symbol_containing(sec, sym.offset) returns the symbol or an alias of
\* it (same offset and type), whatever other symbols overlap that offset.
C7_ContainingAsStated ==
    qres.op = "containing" => (qres.ret = qres.arg \/ IsAlias(qres.ret, qres.arg))

\* Another symbol that is no section symbol, differs from s in offset or
\* type, and contains s's offset.
OtherContains(s) ==
    \E a \in 1..Len(sec.syms) :
        /\ sec.syms[a].type # "STT_SECTION"
        /\ Contains(sec.syms[a], sec.syms[s].offset)
        /\ ~IsAlias(a, s)

\* C7 as amended: for a symbol of non-zero length that is no section
\* symbol, find_symbol_containing(sec, sym.offset) returns a symbol that is
\* no section symbol and contains sym.offset; it is the symbol or an alias
\* of it when no other such symbol of another offset or type contains
\* sym.offset.
C7_ContainingSomeSymbol ==
    (qres.op = "containing" /\ sec.syms[qres.arg].type # "STT_SECTION") =>
        /\ qres.ret # NoSym
        /\ sec.syms[qres.ret].type # "STT_SECTION"
        /\ Contains(sec.syms[qres.ret], sec.syms[qres.arg].offset)
        /\ ~OtherContains(qres.arg) =>
               (qres.ret = qres.arg \/ IsAlias(qres.ret, qres.arg))

\* An alias is returned in place of the symbol asked for.
C7_Witness ==
    /\ qres.op = "containing" /\ sec.syms[qres.arg].type = "STT_FUNC"
    /\ qres.ret # qres.arg /\ IsAlias(qres.ret, qres.arg)
    /\ ~OtherContains(qres.arg)
    /\ Len(sec.tree) = 3

(***************************************************************************)
(* Claims on jump-table expansion                                          *)
(***************************************************************************)
BranchPfunc == FuncSym[jt.func].pfunc

\* C8: every alternative attached by jump-table expansion is an instruction
\* of a function whose parent function is the parent function of the
\* branch.
C8_AltsInParentFunction ==
    jt.pc = "done" =>
        \A k \in 1..Len(jt.alts) :
            /\ insn_func(jt.alts[k]) # "none"
            /\ FuncSym[insn_func(jt.alts[k])].pfunc = BranchPfunc

\* A branch of F whose alternatives reach into F's cold subfunction.
C8_Witness ==
    /\ jt.pc = "done" /\ jt.func = "F" /\ Len(jt.alts) >= 2
    /\ \E k \in 1..Len(jt.alts) : insn_func(jt.alts[k]) = "Fcold"
    /\ \E k \in 1..Len(jt.alts) : insn_func(jt.alts[k]) = "F"

\* The relocation at list position k ends the table of the branch.
EndsTable(k) ==
    \/ k # jt.table /\ jt.list[k].jts
    \/ /\ jt.list[k].sec = FuncSym[BranchPfunc].sec
       /\ jt.list[k].offset = FuncSym[BranchPfunc].offset
    \/ find_insn(jt.list[k].sec, jt.list[k].offset) = NoInsn
    \/ insn_func(find_insn(jt.list[k].sec, jt.list[k].offset)) = "none"
    \/ FuncSym[insn_func(find_insn(jt.list[k].sec, jt.list[k].offset))].pfunc
          # BranchPfunc

\* The first position from the anchor on that ends the table, one past the
\* list's end when none does.
TableEnd ==
    LET ends == {k \in jt.table..Len(jt.list) : EndsTable(k)}
    IN  IF ends = {} THEN Len(jt.list) + 1
        ELSE CHOOSE k \in ends : \A m \in ends : k <= m

\* C9: expansion walks the relocation list forward from the anchor and
\* attaches exactly one alternative per relocation up to, and excluding,
\* the first relocation that is another jump_table_start marker, targets
\* the entry of the branch's (parent) function, targets no known
\* instruction or targets an instruction of another parent function;
\* nothing at or after that relocation contributes an alternative.
C9_OneAltPerEntry ==
    jt.pc = "done" =>
        /\ jt.ret = 0
        /\ Len(jt.alts) = TableEnd - jt.table
        /\ \A n \in 1..Len(jt.alts) :
              LET r == jt.list[jt.table + n - 1]
              IN  jt.alts[Len(jt.alts) + 1 - n] = [sec |-> r.sec, offset |-> r.offset]

\* Scenario S4's table: three entries in the function, then one in the
\* next function; exactly three alternatives.
C9_Witness ==
    /\ jt.pc = "done" /\ jt.func = "F" /\ jt.table = 1 /\ Len(jt.list) = 4
    /\ \A k \in 1..3 : insn_func(find_insn(jt.list[k].sec, jt.list[k].offset)) = "F"
    /\ \A k \in 1..3 : jt.list[k].offset # 0
    /\ insn_func(find_insn(jt.list[4].sec, jt.list[4].offset)) = "G"
    /\ ~jt.list[4].jts
    /\ Len(jt.alts) = 3

(***************************************************************************)
(* Claims on the resolver's stack reload.                                  *)
(***************************************************************************)
IsLoadSp(w, reg, k) ==
    Op_reg2i12(w) = ldd_op /\ Rd(w) = reg /\ Rj(w) = CFI_SP /\ Simm12(w) = k

IsStoreSp(w, k) ==
    Op_reg2i12(w) = std_op /\ Rj(w) = CFI_SP /\ Simm12(w) = k

IsIndexLoad(w, reg) == Op_reg3(w) = ldxd_op /\ Rd(w) = reg

\* The table anchored at position t of the read-only data's relocations:
\* its entries run to the next table's start or the end of the list.
TableEntries(t) ==
    {k \in t..Len(RodataRelocs) :
        \A j \in (t + 1)..k : ~RodataRelocs[j].jts}

\* Every entry of the table is an instruction of the branch's function
\* (or of its cold part) other than the function's entry.
InFunctionTable(t) ==
    \A k \in TableEntries(t) :
        LET d == find_insn(RodataRelocs[k].sec, RodataRelocs[k].offset)
        IN  /\ d # NoInsn
            /\ insn_func(d) # "none"
            /\ FuncSym[insn_func(d)].pfunc = FuncSym[BranchFunc].pfunc
            /\ ~(d.sec = FuncSym[FuncSym[BranchFunc].pfunc].sec
                 /\ d.offset = FuncSym[FuncSym[BranchFunc].pfunc].offset)

\* pcaddu12i into reg with a relocation that anchors an in-function table.
IsTableAnchor(e, reg) ==
    /\ Op_reg1i20(e.word) = pcaddu12i_op /\ Rd(e.word) = reg
    /\ e.rel # "none"
    /\ IsTableName(RelSym[e.rel].name)
    /\ RodataRelocAt(RelSym[e.rel].sec, RelSym[e.rel].offset) # 0
    /\ InFunctionTable(RodataRelocAt(RelSym[e.rel].sec, RelSym[e.rel].offset))

AnchoredTable(e) == RodataRelocAt(RelSym[e.rel].sec, RelSym[e.rel].offset)

SpillAfterLoad(o, a, b, c) ==
    LET base == Rj(o[2].word)
        k == Simm12(o[a].word)
        s == Rd(o[b].word)
    IN  /\ a = 3 /\ a < b /\ b < c /\ c <= Len(o)
        /\ IsIndexLoad(o[2].word, Rj(o[1].word))
        /\ IsLoadSp(o[a].word, base, k) /\ k # 0
        /\ IsStoreSp(o[b].word, k)
        /\ \A j \in (a + 1)..(b - 1) : ~IsStoreSp(o[j].word, k)
        /\ IsTableAnchor(o[c], s)
        /\ \A j \in (b + 1)..(c - 1) : Rd(o[j].word) # s

WriteEnded == elf.phase \in {"written", "failed", "aborted"}

RECURSIVE Concat(_, _)
Concat(blocks, b) ==
    IF b > Len(blocks) THEN <<>> ELSE blocks[b] \o Concat(blocks, b + 1)

\* The entries of .symtab in the file after a completed write.
DiskSymtab == Concat(elf.symtab.data, 1)

\* The binding of the symbol entry held by a slot.
SlotLocal(slot) == IF slot > 0 THEN elf.syms[slot].bind = "STB_LOCAL" ELSE TRUE

\* C1 as stated: after add-symbol operations followed by write-back, the
\* written .symtab holds every symbol at its index, every local symbol
\* below every non-local one, and sh_info is the number of local symbols.
C1_LocalsFirstAfterWrite ==
    (WriteEnded /\ elf.nadd > 0) =>
        /\ elf.phase = "written"
        /\ Len(DiskSymtab) = elf.symtab.sh_size
        /\ \A id \in 1..Len(elf.syms) :
              /\ elf.syms[id].idx < Len(DiskSymtab)
              /\ DiskSymtab[elf.syms[id].idx + 1] = id
        /\ \A i, j \in 1..Len(DiskSymtab) :
              (SlotLocal(DiskSymtab[j]) /\ ~SlotLocal(DiskSymtab[i])) => j < i
        /\ elf.symtab.sh_info
              = Cardinality({i \in 1..Len(DiskSymtab) : SlotLocal(DiskSymtab[i])})

\* The relocations reachable from a symbol's relocation list, the chains
\* behind its entries included.
OnSymbolList(s) == Range(ListWithChains(elf, elf.syms[s].rl, 1))

\* The original symbols an add-symbol operation gave another index.
Renumbered ==
    IF hist.op = "add"
    THEN {s \in 1..Len(hist.idx) : elf.syms[s].idx # hist.idx[s]}
    ELSE {}

\* Every relocation of section b, in list order, the chained ones behind
\* their heads.
SecRelocs(b) == ListWithChains(elf, elf.rsec[b].list, 1)

\* C2 as stated: every relocation on symbol S, chained ones included, is
\* reachable from S's relocation list; when an insertion renumbers S every
\* relocation section with a reference to S is marked dirty; after a
\* write every entry that referenced S carries S's new index.
C2_RelocsOnSymbolLists ==
    /\ elf.phase \in {"run", "written", "failed", "aborted"} =>
          \A r \in 1..Len(elf.relocs) :
              elf.relocs[r].sym # NoSym => r \in OnSymbolList(elf.relocs[r].sym)
    /\ elf.phase = "run" =>
          \A s \in Renumbered : \A r \in 1..Len(elf.relocs) :
              elf.relocs[r].sym = s => elf.rsec[elf.relocs[r].sec].changed
    /\ elf.phase = "written" =>
          \A b \in Bases : \A i \in 1..Len(SecRelocs(b)) :
              elf.relocs[SecRelocs(b)[i]].sym # NoSym =>
                  /\ i <= Len(elf.rsec[b].data)
                  /\ elf.rsec[b].data[i].symidx
                        = elf.syms[elf.relocs[SecRelocs(b)[i]].sym].idx

\* The symbol that had index i before the last add-symbol operation.
HadIndex(i) == {s \in 1..Len(hist.idx) : hist.idx[s] = i}

\* C3: a successful addition of a local symbol, when a non-local symbol is
\* at index sh_info, moves that symbol to the index one past the old end,
\* puts the new symbol at the old sh_info, raises sh_info and the symbol
\* count by one each, and the lookup by index finds both; a successful
\* addition of a non-local symbol puts it at the old end and leaves
\* sh_info and every other symbol's index as they were.
C3_AddSymbolPlacement ==
    (hist.op = "add" /\ hist.ok) =>
        /\ elf.symtab.sh_size = hist.sh_size + 1
        /\ hist.bind = "STB_LOCAL" =>
              /\ elf.symtab.sh_info = hist.sh_info + 1
              /\ \A old \in HadIndex(hist.sh_info) :
                    elf.syms[old].bind # "STB_LOCAL" =>
                       /\ elf.syms[old].idx = hist.sh_size
                       /\ elf.syms[hist.sym].idx = hist.sh_info
                       /\ find_symbol_by_index(elf, hist.sh_size) = old
                       /\ find_symbol_by_index(elf, hist.sh_info) = hist.sym
        /\ hist.bind # "STB_LOCAL" =>
              /\ elf.syms[hist.sym].idx = hist.sh_size
              /\ find_symbol_by_index(elf, hist.sh_size) = hist.sym
              /\ elf.symtab.sh_info = hist.sh_info
              /\ \A s \in 1..Len(hist.idx) : elf.syms[s].idx = hist.idx[s]

\* A local symbol was added in front of a non-local one that relocations
\* reference.
C3_Witness ==
    /\ hist.op = "add" /\ hist.ok /\ hist.bind = "STB_LOCAL"
    /\ \E old \in HadIndex(hist.sh_info) :
          /\ elf.syms[old].bind = "STB_GLOBAL"
          /\ elf.syms[old].idx = hist.sh_size
          /\ elf.syms[old].rl # <<>>
    /\ elf.syms[hist.sym].idx = hist.sh_info
    /\ elf.symtab.sh_info = hist.sh_info + 1

\* The entry the file holds for a relocation of section b: SHT_REL entries
\* have no addend.
EntryOf(b, p) ==
    [offset |-> elf.relocs[p].offset, type |-> elf.relocs[p].type,
     symidx |-> IF elf.relocs[p].sym # NoSym
                THEN elf.syms[elf.relocs[p].sym].idx ELSE 0,
     addend |-> IF elf.rsec[b].type = "SHT_RELA" THEN elf.relocs[p].addend ELSE 0]

\* C4 as stated: after write-back the entries of every relocation section
\* are the (offset, type, symbol index, addend) tuples of its in-memory
\* relocations in list order, one entry per relocation, sh_size /
\* sh_entsize entries in total.
C4_EntriesAsInMemory ==
    elf.phase = "written" =>
        \A b \in Bases : elf.rsec[b].exists =>
            /\ Len(elf.rsec[b].data) = elf.rsec[b].sh_size
            /\ Len(SecRelocs(b)) = elf.rsec[b].sh_size
            /\ \A i \in 1..Len(SecRelocs(b)) :
                  /\ i <= Len(elf.rsec[b].data)
                  /\ elf.rsec[b].data[i] = EntryOf(b, SecRelocs(b)[i])


(***************************************************************************)
(* Claims on the resolver's first loop and its diagnostics                 *)
(***************************************************************************)
\* The four orbit entries behind the jirl are lu52i.d rj,rj / lu32i.d rj /
\* ori rj,rj / lu12i.w rj, rj the jirl's source register.
TailSequence(o) ==
    LET rj == Rj(o[1].word)
    IN  /\ Len(o) >= 5
        /\ Op_reg2i12(o[2].word) = lu52id_op
        /\ Rj(o[2].word) = rj /\ Rd(o[2].word) = rj
        /\ Op_reg1i20(o[3].word) = lu32id_op /\ Rd(o[3].word) = rj
        /\ Op_reg2i12(o[4].word) = ori_op
        /\ Rj(o[4].word) = rj /\ Rd(o[4].word) = rj
        /\ Op_reg1i20(o[5].word) = lu12iw_op /\ Rd(o[5].word) = rj

\* The result the resolver starts from, and the second loop run on it.
TailStart(o) == [NoResult EXCEPT !.dest_reg = Rj(o[1].word)]

TailPhaseB(o, i) ==
    PhaseB(o, 1, [dest_reg |-> Rj(o[1].word), stage |-> 0, instack |-> 0,
                  i |-> i, lu52id |-> 0, ldptrd |-> 0, ldd |-> 0,
                  done |-> FALSE, r |-> TailStart(o)])

\* The resolver went past its three entry checks.
TailEntered ==
    /\ orb.pc = "resolved" /\ orb.headed
    /\ ~(Op_reg2i12(orb.next) = addid_op /\ Rj(orb.next) = CFI_SP
         /\ Rd(orb.next) = CFI_SP)

\* C11: behind a jirl on rj, the sequence lu52i.d rj,rj / lu32i.d rj /
\* ori rj,rj / lu12i.w rj with a relocation whose symbol resolves to an
\* instruction sets jump_dest to that instruction and returns success; with
\* a symbol that has no instruction the branch becomes INSN_RETURN; any
\* other orbit is left untouched by the first loop and the second loop
\* decides.
C11_ImmediateTailCall ==
    TailEntered =>
        LET o == orb.orbit
            a == PhaseA(o, 1, 0, Rj(o[1].word), TailStart(o))
        IN  /\ (TailSequence(o) /\ o[5].rel # "none") =>
                  LET sym == RelSym[o[5].rel]
                      n == find_insn(sym.sec, sym.offset)
                  IN  /\ n # NoInsn =>
                            /\ orb.res.jump_dest = n
                            /\ orb.res.ret = 0
                            /\ orb.res.type = "INSN_JUMP_DYNAMIC"
                      /\ n = NoInsn =>
                            /\ orb.res.type = "INSN_RETURN"
                            /\ orb.res.jump_dest = NoInsn
            /\ ~TailSequence(o) =>
                  /\ ~a.done
                  /\ a.r = TailStart(o)
                  /\ orb.res = TailPhaseB(o, a.i)

\* The sequence was matched and its symbol resolved to an instruction.
C11_Witness ==
    /\ TailEntered
    /\ TailSequence(orb.orbit)
    /\ orb.orbit[5].rel = "g_func"
    /\ orb.res.jump_dest = [sec |-> "T", offset |-> 4]
    /\ orb.res.ret = 0

\* C12 as stated: whenever the resolver ends on one of its diagnostics
\* (empty orbit, head not the branch, head not a jirl, a missing relocation
\* on lu12i.w, on pcaddu12i or on the table symbol) the branch is
\* INSN_RETURN.
C12_DiagnosticIsReturn ==
    (orb.pc = "resolved" /\ orb.res.ret = 1) => orb.res.type = "INSN_RETURN"

\* C13 as stated: an add-symbol call that fails leaves every symbol's
\* index, the index hash, every relocation section's dirty flag and
\* .symtab's sh_info and sh_size as they were before the call.
C13_FailedAddAppliesNothing ==
    (hist.op = "add" /\ ~hist.ok) =>
        /\ \A s \in 1..Len(hist.idx) : elf.syms[s].idx = hist.idx[s]
        /\ elf.symhash = hist.symhash
        /\ <<elf.rsec["B"].changed, elf.rsec["N"].changed>> = hist.changed
        /\ elf.symtab.sh_info = hist.sh_info
        /\ elf.symtab.sh_size = hist.sh_size

\* The index the file's symbol with index i gets when k section symbols
\* are spliced in at f.
Spliced(i, f, k) == IF i >= f THEN i + k ELSE i

\* C14 as stated: write-back with k queued section symbols completes with
\* the queued symbols as the entries [first_nonlocal, first_nonlocal + k)
\* of .symtab in queue order, every non-local symbol of the file k entries
\* higher, every local symbol where it was, and every entry of a SHT_RELA
\* section whose symbol index was >= first_nonlocal raised by k.
C14_QueuedSymbolsSpliced ==
    (WriteEnded /\ elf.nadd = 0) =>
        LET k == Len(elf.add_syms)
            f == elf.first_nonlocal_sym
        IN  /\ elf.phase = "written"
            /\ Len(DiskSymtab) = MaxSyms0 + k
            /\ elf.symtab.sh_size = MaxSyms0 + k
            /\ \A j \in 1..k : DiskSymtab[f + j] = 0 - j
            /\ \A id \in 1..MaxSyms0 : DiskSymtab[Spliced(id - 1, f, k) + 1] = id
            /\ \A b \in Bases :
                  (elf.rsec[b].exists /\ elf.rsec[b].type = "SHT_RELA" /\ b = "B") =>
                      /\ Len(elf.rsec[b].data) >= elf.nread
                      /\ \A i \in 1..elf.nread :
                            elf.rsec[b].data[i].symidx
                               = Spliced(elf.relocs[i].sym - 1, f, k)

(***************************************************************************)
(* Claims on the relocation hash                                           *)
(***************************************************************************)
\* The indexed relocations of section s in [offset, offset + len).
InRange(s, offset, len) ==
    {q \in sec.relocs : q.sec = s /\ q.offset >= offset /\ q.offset < offset + len}

\* C15 as stated: find_reloc_by_dest_range returns an indexed relocation of
\* the section in [offset, offset + len) of the smallest such offset, and
\* none exactly when the range holds none, whatever buckets the keys fall
\* into.
C15_SmallestInRange ==
    qres.op = "range" =>
        LET in == InRange(qres.arg[1], qres.arg[2], qres.arg[3])
        IN  /\ (qres.ret = 0 - 1) <=> (in = {})
            /\ qres.ret # 0 - 1 =>
                  /\ \E q \in in : q.offset = qres.ret
                  /\ \A q \in in : qres.ret <= q.offset

(***************************************************************************)
(* Claims on the loader                                                    *)
(***************************************************************************)
IsCold(s) == s.type = "STT_FUNC" /\ StrStr(s.name, ColdStr) # 0

ParentName(s) == SubSeq(s.name, 1, StrStr(s.name, ColdStr) - 1)

C17_LoadAbortsOnFailure ==
    (elf.pc = "done" /\ hist.fault # "none") =>
        elf.ret = "NULL" /\ elf.secs = <<>> /\ elf.syms = <<>>

(***************************************************************************)
(* Claims on write-back                                                    *)
(***************************************************************************)
\* C18: elf_write on a model no operation has changed since the load
\* succeeds and leaves the symbols with their indices, .symtab's sh_info,
\* sh_size and data and every relocation section's header and data as they
\* were loaded; no relocation section is rebuilt.
C18_WriteWithoutMutation ==
    [][(elf.phase = "run" /\ elf.ops = 0 /\ elf'.phase # "run") =>
          elf' = [elf EXCEPT !.phase = "written"]]_vars

\* A model with relocations was written right after the load.
C18_Witness ==
    /\ elf.phase = "written"
    /\ elf.ops = 0
    /\ elf.rsec["B"].sh_size > 0
    /\ elf.rsec["B"].list # <<>>

C19_ExhaustedOrbitReturns ==
    /\ (orb.pc = "B") ~> (orb.pc = "done")
    /\ (orb.pc = "B" /\ orb.k > Len(orb.orbit))
          ~> (/\ orb.pc = "done"
              /\ orb.exhausted
              /\ orb.res.type = "INSN_RETURN"
              /\ orb.res.ret = 0)

\* The scan ended at the end of an orbit of four instructions with a stack
\* reload still waiting for its store.
C19_Witness ==
    /\ orb.pc = "done"
    /\ orb.exhausted
    /\ Len(orb.orbit) >= 4
    /\ orb.s.instack # 0
    /\ orb.res.type = "INSN_RETURN"
    /\ orb.res.ret = 0

(***************************************************************************)
(* Claims on the marking of jump tables                                    *)
(***************************************************************************)
\* The table relocations the scanned pcaddu12i instructions lead to: those
\* at the place of a symbol named .L... or jumptable... that a relocation
\* of a pcaddu12i targets.
MarkLanded ==
    {o \in MarkOffsets :
        \E k \in 1..Len(jt.insns) :
           LET e == jt.insns[k]
           IN  /\ Op_reg1i20(e.word) = pcaddu12i_op
               /\ e.rel # "none"
               /\ IsTableName(RelSym[e.rel].name)
               /\ RelSym[e.rel].sec = "R"
               /\ RelSym[e.rel].offset = o}

\* C21 as stated: the marked table relocations are exactly the landed
\* ones, whatever symbol they target themselves.
C21_MarkedAsStated ==
    jt.pc = "marked" => jt.marked = MarkLanded

\* C21: the marked table relocations are exactly the landed ones whose own
\* symbol has a name beginning with .L; no other relocation is marked.
C21_MarkedLocalLabels ==
    jt.pc = "marked" =>
       jt.marked = {o \in MarkLanded : HasPrefix(jt.table[o], <<".", "L">>)}

\* A function with a pcaddu12i on .L0 and one on jumptable_7, where the
\* table relocation at R+0 targets a .L symbol and the one at R+32 does not.
C21_Witness ==
    /\ jt.pc = "marked"
    /\ MarkLanded = {0, 32}
    /\ jt.marked = {0}

(***************************************************************************)
(* Claims on the stages of the resolver's scan                             *)
(***************************************************************************)
\* The entry the second loop is at.
ScanEntry == orb.orbit[orb.k]

\* The scan is in Stage 1, outside a stack reload, at a pcaddu12i whose
\* destination is the tracked register and which carries a relocation.
AtStage1Pcaddu12i ==
    /\ orb.pc = "B"
    /\ orb.k <= Len(orb.orbit)
    /\ orb.s.instack = 0
    /\ orb.s.stage = 1
    /\ Op_reg1i20(ScanEntry.word) = pcaddu12i_op
    /\ Rd(ScanEntry.word) = orb.s.dest_reg
    /\ ScanEntry.rel # "none"

\* What C22 says of the step taken at such a pcaddu12i.
AnchorClassified ==
    LET sym == RelSym[ScanEntry.rel]
        table == RodataRelocAt(sym.sec, sym.offset)
    IN  IF IsTableName(sym.name)
        THEN table # 0 =>
                /\ orb'.pc = "done"
                /\ orb'.res.jump_table = table
                /\ orb'.res.alts =
                      dynamic_add_jump_table(RodataRelocs, table, BranchFunc).alts
                /\ orb'.res.ret = 0
        ELSE (\/ sym.bind = "STB_LOCAL" /\ sym.type = "STT_OBJECT"
              \/ sym.bind = "STB_GLOBAL") =>
                /\ orb'.pc = "done"
                /\ orb'.res.type = "INSN_RETURN"
                /\ orb'.res.ret = 0

\* C22 as stated: in Stage 1 every pcaddu12i on the tracked register with a
\* relocation is the anchor.
C22_AnchorAsStated ==
    [][AtStage1Pcaddu12i => AnchorClassified]_vars

\* C22: in Stage 1, as long as no lu52i.d on the tracked register was met
\* in Stage 1, a pcaddu12i on the tracked register with a relocation is the
\* anchor: a symbol named .L... or jumptable... gives the relocation at its
\* place as the branch's jump table, expanded; else a local object or a
\* global symbol gives INSN_RETURN and success.
C22_AnchorWithoutLu52id ==
    [][(AtStage1Pcaddu12i /\ orb.s.lu52id = 0) => AnchorClassified]_vars

\* The resolver returned at a pcaddu12i on .L0 behind ldx.d with the table
\* at R+0 recorded and its three alternatives attached.
C22_Witness ==
    /\ orb.pc = "done"
    /\ ~orb.exhausted
    /\ orb.s.stage = 1
    /\ orb.s.lu52id = 0
    /\ orb.orbit[orb.k - 1].rel = "L0"
    /\ orb.res.jump_table = 1
    /\ Len(orb.res.alts) = 3

\* The scan is in Stage 0 at an entry that comes to the switch: no stack
\* reload is waiting for its store and the entry does not start one.
AtStage0Switch ==
    /\ orb.pc = "B"
    /\ orb.k <= Len(orb.orbit)
    /\ orb.s.instack = 0
    /\ orb.s.stage = 0
    /\ ~(/\ Op_reg2i12(ScanEntry.word) \in {ldd_op, ldptrd_op}
         /\ Rd(ScanEntry.word) = orb.s.dest_reg
         /\ Rj(ScanEntry.word) = 3)

\* C23: in Stage 0 with tracked register t, alsl.d with rd = t makes its rk
\* the tracked register and the stage 1; ldx.d with rd = t makes its rj the
\* tracked register and the stage 1; ld.d or ldptr.d with rd = t makes its
\* rj the tracked register and leaves the stage 0; add.d with rd = t makes
\* its rj the tracked register and the stage 1 if a ld.d or ldptr.d was
\* recorded before in this scan, and else changes neither; from Stage 1
\* the scan never comes back to Stage 0.
C23_Stage0Transitions ==
    [][LET w == ScanEntry.word
           t == orb.s.dest_reg
       IN  /\ AtStage0Switch =>
                /\ (Op_reg3sa2(w) = alsld_op /\ Rd(w) = t) =>
                      orb'.s.dest_reg = Rk(w) /\ orb'.s.stage = 1
                /\ (Op_reg3(w) = ldxd_op /\ Rd(w) = t) =>
                      orb'.s.dest_reg = Rj(w) /\ orb'.s.stage = 1
                /\ ((Op_reg2i12(w) = ldd_op \/ Op_reg2i14(w) = ldptrd_op)
                    /\ Rd(w) = t) =>
                      orb'.s.dest_reg = Rj(w) /\ orb'.s.stage = 0
                /\ (Op_reg3(w) = addd_op /\ Rd(w) = t) =>
                      IF orb.s.ldd # 0 \/ orb.s.ldptrd # 0
                      THEN orb'.s.dest_reg = Rj(w) /\ orb'.s.stage = 1
                      ELSE orb'.s.dest_reg = t /\ orb'.s.stage = 0
           /\ (orb.pc = "B" /\ orb.s.stage = 1) => orb'.s.stage = 1]_vars

\* A scan that met ld.d on the tracked register, then add.d on the new one
\* and came to Stage 1 with add.d's rj tracked, and went on from there.
C23_Witness ==
    /\ orb.pc = "done"
    /\ Len(orb.orbit) = 4
    /\ Op_reg2i12(orb.orbit[2].word) = ldd_op
    /\ Rj(orb.orbit[2].word) = 15
    /\ Op_reg3(orb.orbit[3].word) = addd_op
    /\ Rd(orb.orbit[3].word) = 15
    /\ orb.s.ldd # 0
    /\ orb.s.stage = 1
    /\ orb.s.dest_reg = 13

(***************************************************************************)
(* C24                                                                     *)
(***************************************************************************)
\* The relocations behind relocation r on its next chain, r included.
RECURSIVE NextChain(_)
NextChain(r) ==
    IF r = NoReloc THEN {} ELSE {r} \cup NextChain(elf.relocs[r].next)

\* The relocations read from the file at offset o, in file order.
ReadAt(o) == {r \in 1..Len(elf.relocs) : elf.relocs[r].offset = o}

\* C24: after the load, for every offset exactly one relocation at that
\* offset, the first in file order, is in the relocation list (and hash) of
\* the section, and every other relocation at that offset is on the next
\* chain of that first one, adjacent in the file or not.
C24_FirstAtOffsetIndexed ==
    elf.phase = "run" =>
        \A o \in ReadOffsets :
            ReadAt(o) # {} =>
                LET first == CHOOSE r \in ReadAt(o) : \A q \in ReadAt(o) : r <= q
                IN  /\ ReadAt(o) \cap Range(elf.rsec["B"].list) = {first}
                    /\ ReadAt(o) \subseteq NextChain(first)

(***************************************************************************)
(* C25                                                                     *)
(***************************************************************************)
\* C25: in every state the program can be in when elf_write is called,
\* after any symbol, section and relocation additions, the two assertions
\* of elf_adjust_nonlocal_symbol hold: with .symtab changed, the symbol
\* count less the queued section symbols is the entry count of .symtab's
\* first data block, and the data of every SHT_RELA section is of sh_size.
C25_WriteAssertionsHold ==
    /\ elf.phase = "run" => elf_adjust_nonlocal_symbol(elf).ret = "ok"
    /\ elf.phase # "aborted"

(***************************************************************************)
(* C26                                                                     *)
(***************************************************************************)
\* The entries read from the file that referenced a non-local symbol carry
\* the symbol's old index raised by the k queued section symbols.
DiskRelocsRenumbered ==
    \A i \in 1..elf.nread :
        elf.relocs[i].sym - 1 >= elf.first_nonlocal_sym =>
            /\ i <= Len(elf.rsec["B"].data)
            /\ elf.rsec["B"].data[i].symidx
                  = elf.relocs[i].sym - 1 + Len(elf.add_syms)

\* Every in-memory symbol's idx is the slot of .symtab that holds it.
SymbolsAtTheirSlots ==
    \A id \in 1..Len(elf.syms) :
        /\ elf.syms[id].idx + 1 \in 1..Len(DiskSymtab)
        /\ DiskSymtab[elf.syms[id].idx + 1] = id

\* C26: after a write-back that spliced k > 0 queued section symbols, every
\* on-disk relocation, of a SHT_REL as of a SHT_RELA section, that
\* referenced a non-local symbol of the file carries old index + k, and
\* every in-memory symbol's idx is its on-disk slot, referenced by a
\* relocation or not.
C26_RenumberedAfterSplice ==
    (elf.phase = "written" /\ Len(elf.add_syms) > 0) =>
        /\ DiskRelocsRenumbered
        /\ SymbolsAtTheirSlots

(***************************************************************************)
(* C27                                                                     *)
(***************************************************************************)
\* The second loop is about to take an entry while the reload of the
\* branch's register from sp+k, met right behind the branch, waits for its
\* store: no store to sp+k was met since.
ReloadOpen(k) ==
    /\ orb.pc = "B"
    /\ orb.k > 2 /\ orb.k <= Len(orb.orbit)
    /\ IsLoadSp(orb.orbit[2].word, Rj(orb.orbit[1].word), k)
    /\ \A j \in 3..(orb.k - 1) : ~IsStoreSp(orb.orbit[j].word, k)

\* C27: the stack reload is tracked alike for every offset k, 0 included:
\* after the ld.d of the tracked register from sp+k every entry up to the
\* first st.d to sp+k leaves the tracked register and the stage as they
\* are, and that store makes the stored register the tracked one.
C27_ReloadAtEveryOffset ==
    [][\A k \in SpillOffsets :
          ReloadOpen(k) =>
              /\ orb'.s.stage = orb.s.stage
              /\ orb'.s.dest_reg = IF IsStoreSp(ScanEntry.word, k)
                                   THEN Rd(ScanEntry.word)
                                   ELSE orb.s.dest_reg]_vars

(***************************************************************************)
(* C28                                                                     *)
(***************************************************************************)
\* What the first loop leaves on the branch of orbit o.
FirstLoop(o) == PhaseA(o, 1, 0, Rj(o[1].word), TailStart(o))

\* The first loop classified the branch as a tail call: it set jump_dest,
\* or it set INSN_RETURN for a symbol without instruction.
TailCallByFirstLoop(o) ==
    /\ Len(o) >= 2
    /\ \/ FirstLoop(o).r.jump_dest # NoInsn
       \/ FirstLoop(o).r.type = "INSN_RETURN"

\* C28: the resolver's outcomes exclude one another: a branch it returns
\* as INSN_RETURN carries neither a jump table nor alternatives, and a
\* branch the first loop classified as a tail call comes back from the
\* second loop as classified, with success and without alternatives.
C28_OutcomesExclusive ==
    orb.pc = "resolved" =>
        /\ orb.res.type = "INSN_RETURN" =>
              /\ orb.res.jump_table = 0
              /\ orb.res.alts = <<>>
        /\ TailCallByFirstLoop(orb.orbit) =>
              /\ orb.res.ret = 0
              /\ orb.res.type = FirstLoop(orb.orbit).r.type
              /\ orb.res.jump_dest = FirstLoop(orb.orbit).r.jump_dest
              /\ orb.res.jump_table = 0
              /\ orb.res.alts = <<>>

\* The first loop set INSN_RETURN for the symbol ext and the second loop
\* ran and returned.
C28_Witness ==
    /\ orb.pc = "resolved"
    /\ TailSequence(orb.orbit)
    /\ orb.orbit[5].rel = "ext"
    /\ ~FirstLoop(orb.orbit).done
    /\ orb.res.type = "INSN_RETURN"
    /\ orb.res.ret = 0

(***************************************************************************)
(* C29                                                                     *)
(***************************************************************************)
\* The resolver was called for an orbit that is the branch alone.
BranchAlone ==
    /\ orb.pc # "decode"
    /\ orb.headed
    /\ Len(orb.orbit) = 1

\* C29: the resolver reads only elements of the orbit: called for an orbit
\* that is the branch alone it returns, the word it decoded behind the head
\* is that of an orbit element, and the branch is INSN_RETURN with success.
C29_ReadsOnlyOrbit ==
    BranchAlone =>
        /\ orb.pc = "resolved"
        /\ \E j \in 1..Len(orb.orbit) : orb.next = orb.orbit[j].word
        /\ orb.res.type = "INSN_RETURN"
        /\ orb.res.ret = 0

(***************************************************************************)
(* C30                                                                     *)
(***************************************************************************)
\* addi.d with rj = rd = sp
IsSpAdjust(w) == Op_reg2i12(w) = addid_op /\ Rj(w) = CFI_SP /\ Rd(w) = CFI_SP

\* C30: when the orbit entry right behind the head is addi.d sp, sp, the
\* resolver returns success with the branch INSN_RETURN and nothing else
\* set (no jump_dest, no jump table, no alternative), whether or not the
\* head is a jirl and whatever follows in the orbit.
C30_SpAdjustReturns ==
    (orb.pc = "resolved" /\ Len(orb.orbit) >= 2 /\ IsSpAdjust(orb.orbit[2].word)) =>
        /\ orb.res.ret = 0
        /\ orb.res.type = "INSN_RETURN"
        /\ orb.res.jump_dest = NoInsn
        /\ orb.res.jump_table = 0
        /\ orb.res.alts = <<>>

\* The head is not a jirl, the entry behind it is addi.d sp, sp, -16 and
\* an indexed load and a table anchor follow.
C30_Witness ==
    /\ orb.pc = "resolved"
    /\ Len(orb.orbit) = 4
    /\ Op_reg2i16(orb.orbit[1].word) # jirl_op
    /\ IsSpAdjust(orb.orbit[2].word)
    /\ Op_reg3(orb.orbit[3].word) = ldxd_op
    /\ orb.orbit[4].rel = "L0"
    /\ orb.res.type = "INSN_RETURN"
    /\ orb.res.ret = 0

====
